---- MODULE Spec2Model ----
(***************************************************************************)
(* Model of src/src/extension.ts: the CssClassExtractor registry (a JS     *)
(* Map from file path to a JS Set of class names, mutated by overlapping   *)
(* asynchronous updates) and the CssClassCompletionProvider context        *)
(* detector (isInContext).                                                 *)
(*                                                                         *)
(* Strings are sequences of one-character strings, so that the regular     *)
(* expressions of the source are modelled by what they match.             *)
(***************************************************************************)
EXTENDS Integers, Sequences, FiniteSets, TLC

\* ------------------------------------------------------------------------
\* Bounds and input sets
\* ------------------------------------------------------------------------

\* File paths that watcher events and scans may name.
Files == {"f1", "f2", "f3"}

\* Concurrently running updateCssClassesForFile calls (one per slot).
Slots == {"u1", "u2"}

\* console.error calls that are counted before read failures stop occurring.
MaxErrors == 1

\* File texts a read may return.
\*   TextAB  ".a .b .a"   -> a, b, a  (a repeated name)
\*   TextB   "p.b"        -> b        (selector with an element prefix)
\*   TextC   ".c .2"      -> c        (a name may not start with a digit)
TextAB == <<".", "a", " ", ".", "b", " ", ".", "a">>
TextB == <<"p", ".", "b">>
TextC == <<".", "c", " ", ".", "2">>
Texts == {TextAB, TextB, TextC}

\* Longest cursor line that is typed.
MaxLineLen == 4

\* Characters that are typed on the cursor line.
TypedChars == {"\"", "'", "=", "(", ")", "c", "f"}

\* Lines that may precede the cursor line when the editor is opened:
\* none, or one line that opens a call of f ("f(").
OpenDocuments == {<< <<>> >>, << <<"f", "(">>, <<>> >>}

\* Lines of a document that is written line by line. "f" is a listed function
\* name, "c" is not.
\*   LineBlank        (empty)
\*   LineOpenF        f(          a call of f left open
\*   LineOpenC        c(          a call of c left open
\*   LineClose        )           closes a call opened on an older line
\*   LineCloseOpenF   )f(         closes an older call, then opens one of f
\*   LineCall         c()         a call opened and closed on the line
\*   LineQuote        "           an open quote and nothing else
\*   LineNestedInF    c(f("       f innermost, inside c
\*   LineNestedInC    f(c("       c innermost, inside f
\*   LineSecondArg    f("c",c()"  second argument of f, after a closed call of c
LineBlank == <<>>
LineOpenF == <<"f", "(">>
LineOpenC == <<"c", "(">>
LineClose == <<")">>
LineCloseOpenF == <<")", "f", "(">>
LineCall == <<"c", "(", ")">>
LineQuote == <<"\"">>
LineNestedInF == <<"c", "(", "f", "(", "\"">>
LineNestedInC == <<"f", "(", "c", "(", "\"">>
LineSecondArg == <<"f", "(", "\"", "c", "\"", ",", "c", "(", ")", "\"">>
LineTemplates ==
    {LineBlank, LineOpenF, LineOpenC, LineClose, LineCloseOpenF, LineCall,
     LineQuote, LineNestedInF, LineNestedInC, LineSecondArg}

\* Most lines of a document that are written out.
MaxTypedLines == 3

\* Most lines of a document once blank lines are inserted.
MaxDocLines == 12

\* Characters of the texts that are handed to extractClassNames, and the
\* longest text that is written with them.
ContentChars == {".", "a", "2", "-", " "}
MaxContentLen == 5

\* The values of the setting styleFilePatterns, each a list with one pattern.
StylePatternSets == {<<"A">>, <<"B">>}

\* The files of the workspace that a pattern matches.
FilesMatching(pattern) == IF pattern = "A" THEN <<"f1", "f2">> ELSE <<"f2">>

\* What a configuration-change event affects: a section of another
\* extension, a setting of cssClassAutocomplete other than styleFilePatterns,
\* or styleFilePatterns.
ConfigEvents == {"unrelated", "attributes", "styleFilePatterns"}

\* Configuration-change events in a behaviour.
MaxConfigChanges == 2

\* Files and file texts of the registry when completion requests are answered.
\*   TextNames  ".ab .ab-c .ab_c .c"  -> ab, ab-c, ab_c, c
ProviderFiles == {"f1", "f2"}
TextNames ==
    <<".", "a", "b", " ", ".", "a", "b", "-", "c", " ",
      ".", "a", "b", "_", "c", " ", ".", "c">>
ProviderTexts == {TextB, TextNames}

\* Cursor lines of a completion request ("c" is a listed attribute, "p" is
\* not, "f" is a listed function).
\*   LineAttr         c="      nothing typed after the open quote
\*   LineTyped        c="ab    "ab" typed
\*   LineTypedSep     c="ab_   "ab_" typed
\*   LineTypedUpper   c="A     "A" typed
\*   LineOtherAttr    p="ab    an attribute that is not listed
\*   LineCallTyped    f("c     "c" typed in a call of f
\* With ^ for the back-tick:
\*   LineTemplateOpen        f(^      a back-tick and no quote
\*   LineTemplatePair        f(^c^    two back-ticks and no quote
\*   LineTemplateInQuote     f("^     a back-tick behind the open quote
\*   LineTemplateBeforeQuote f(^"c    a back-tick in front of the open quote
\*   LineTemplateClosed      f("^")^  a closed quote, back-ticks in and behind it
LineAttr == <<"c", "=", "\"">>
LineTyped == <<"c", "=", "\"", "a", "b">>
LineTypedSep == <<"c", "=", "\"", "a", "b", "_">>
LineTypedUpper == <<"c", "=", "\"", "A">>
LineOtherAttr == <<"p", "=", "\"", "a", "b">>
LineCallTyped == <<"f", "(", "\"", "c">>
\*   LineGroup               ("       a parenthesis without an identifier
\*   LineGroupInCall         f(("     such a parenthesis in a call of f
\*   LineCallInGroup         (f("     a call of f in such a parenthesis
\*   LineBareAttr            c=       a listed attribute, no quote typed yet
\*   LineBareOtherAttr       p=       an attribute that is not listed, no quote
\*   LinePairedThenAttr      "a"c=    a closed quote, then a listed attribute
\*   LinePairedOnly          c="a"    a closed quote at the end
LineBareAttr == <<"c", "=">>
LineBareOtherAttr == <<"p", "=">>
LinePairedThenAttr == <<"\"", "a", "\"", "c", "=">>
LinePairedOnly == <<"c", "=", "\"", "a", "\"">>
LineGroup == <<"(", "\"">>
LineGroupInCall == <<"f", "(", "(", "\"">>
LineCallInGroup == <<"(", "f", "(", "\"">>
\* The back-tick character (U+0060): a string of TLA+ cannot hold it in front
\* of its closing quote, and characters are only compared for equality.
Backtick == "backtick"
LineTemplateOpen == <<"f", "(", Backtick>>
LineTemplatePair == <<"f", "(", Backtick, "c", Backtick>>
LineTemplateInQuote == <<"f", "(", "\"", Backtick>>
LineTemplateBeforeQuote == <<"f", "(", Backtick, "\"", "c">>
LineTemplateClosed == <<"f", "(", "\"", Backtick, "\"", ")", Backtick>>
ProviderLines ==
    {LineAttr, LineTyped, LineTypedSep, LineTypedUpper, LineOtherAttr, LineCallTyped,
     LineTemplateOpen, LineTemplatePair, LineTemplateInQuote, LineTemplateBeforeQuote,
     LineTemplateClosed, LineGroup, LineGroupInCall, LineCallInGroup,
     LineBareAttr, LineBareOtherAttr, LinePairedThenAttr, LinePairedOnly}

\* Provider options: attrs is empty or ["c"], fns is empty or ["f"].
OptionsSet ==
    [quote : BOOLEAN, attrs : {<<>>, << <<"c">> >>}, fns : {<<>>, << <<"f">> >>}]

\* ------------------------------------------------------------------------
\* Character classes of the regular expressions
\* ------------------------------------------------------------------------

Letters == {"a", "b", "c", "f", "p", "A"}
Digits == {"2"}
\* [a-zA-Z0-9_-]
ClassNameChars == Letters \cup Digits \cup {"_", "-"}
\* \w
WordChars == Letters \cup Digits \cup {"_"}
\* ['"]
QuoteChars == {"\"", "'"}

\* const MAX_LOOKBACK_LINES = 10
MAX_LOOKBACK_LINES == 10

\* ------------------------------------------------------------------------
\* JS Set and Map (both keep insertion order)
\* ------------------------------------------------------------------------

SeqToSet(s) == {s[k] : k \in 1..Len(s)}

\* Variant of SetAdd: a plain array push, which keeps repeated names.
SetAdd_push(set, x) == Append(set, x)

\* Set.prototype.add: appends unless already present.
SetAdd(set, x) == IF x \in SeqToSet(set) THEN set ELSE Append(set, x)

\* new Set(iterable): add the elements in iteration order.
RECURSIVE SetAddAll(_, _)
SetAddAll(set, list) ==
    IF list = <<>> THEN set
    ELSE SetAddAll(SetAdd(set, Head(list)), Tail(list))

NewSet(list) == SetAddAll(<<>>, list)

\* Map.prototype.keys, in insertion order.
MapKeys(m) == [k \in 1..Len(m) |-> m[k].file]

MapHas(m, key) == \E k \in 1..Len(m) : m[k].file = key

\* Map.prototype.get (only used on present keys).
MapGet(m, key) == m[CHOOSE k \in 1..Len(m) : m[k].file = key].classes

\* Map.prototype.delete: removes the entry, the others keep their order.
MapDelete(m, key) == SelectSeq(m, LAMBDA e : e.file # key)

\* Map.prototype.set: a present key keeps its position, a new key goes last.
MapSet(m, key, value) ==
    IF MapHas(m, key)
    THEN [k \in 1..Len(m) |->
            IF m[k].file = key THEN [file |-> key, classes |-> value] ELSE m[k]]
    ELSE Append(m, [file |-> key, classes |-> value])

Reverse(s) == [k \in 1..Len(s) |-> s[Len(s) + 1 - k]]

\* ------------------------------------------------------------------------
\* CssClassExtractor.extractClassNames
\* ------------------------------------------------------------------------

\* End of the greedy run [a-zA-Z0-9_-]* that starts at index i.
RECURSIVE ClassRunEnd(_, _)
ClassRunEnd(content, i) ==
    IF i <= Len(content) /\ content[i] \in ClassNameChars
    THEN ClassRunEnd(content, i + 1)
    ELSE i - 1

\* Variant of CLASS_REGEX_matches: the character after the "." need not be a
\* letter, /\.([a-zA-Z0-9_-]*)/g.
RECURSIVE CLASS_REGEX_matches_anyStart(_, _)
CLASS_REGEX_matches_anyStart(content, i) ==
    IF i > Len(content) THEN <<>>
    ELSE IF content[i] = "."
         THEN LET e == ClassRunEnd(content, i + 1)
              IN <<SubSeq(content, i, e)>> \o CLASS_REGEX_matches_anyStart(content, e + 1)
         ELSE CLASS_REGEX_matches_anyStart(content, i + 1)

\* content.match(CLASS_REGEX): every non-overlapping match of
\* /\.([a-zA-Z][a-zA-Z0-9_-]*)/g from index i on, left to right.
RECURSIVE CLASS_REGEX_matches(_, _)
CLASS_REGEX_matches(content, i) ==
    IF i > Len(content) THEN <<>>
    ELSE IF /\ content[i] = "."
            /\ i + 1 <= Len(content)
            /\ content[i + 1] \in Letters
         THEN LET e == ClassRunEnd(content, i + 2)
              IN <<SubSeq(content, i, e)>> \o CLASS_REGEX_matches(content, e + 1)
         ELSE CLASS_REGEX_matches(content, i + 1)

\* Variant of extractClassNames: a name that was found before is left out.
extractClassNames_unique(content) ==
    LET matches == CLASS_REGEX_matches(content, 1)
    IN SetAddAll(<<>>, [k \in 1..Len(matches) |-> Tail(matches[k])])

\* Variant of extractClassNames: without a match the text itself is mapped,
\* `content.match(CLASS_REGEX) || [content]`.
extractClassNames_noMatchFallback(content) ==
    LET found == CLASS_REGEX_matches(content, 1)
        matches == IF found = <<>> THEN <<content>> ELSE found
    IN [k \in 1..Len(matches) |-> SubSeq(matches[k], 2, Len(matches[k]))]

\* matches.map((match) => match.substring(1))
extractClassNames(content) ==
    LET matches == CLASS_REGEX_matches(content, 1)
    IN [k \in 1..Len(matches) |-> Tail(matches[k])]

\* ------------------------------------------------------------------------
\* Regular expressions of the context detector
\* ------------------------------------------------------------------------

\* Array.prototype.includes
Includes(list, x) == \E k \in 1..Len(list) : list[k] = x

\* Index of the first character from i on that is in `chars`, or 0.
RECURSIVE IndexOfAny(_, _, _)
IndexOfAny(s, chars, i) ==
    IF i > Len(s) THEN 0
    ELSE IF s[i] \in chars THEN i
    ELSE IndexOfAny(s, chars, i + 1)

\* (?:[^'"]*(?:"[^"]*"|'[^']*'))* matched greedily from index p:
\* the index after the last iteration that succeeds.
RECURSIVE QuotedSpansEnd(_, _)
QuotedSpansEnd(s, p) ==
    LET open == IndexOfAny(s, QuoteChars, p)
    IN IF open = 0 THEN p
       ELSE LET close == IndexOfAny(s, {s[open]}, open + 1)
            IN IF close = 0 THEN p ELSE QuotedSpansEnd(s, close + 1)

\* Variant of UP_TO_UNMATCHED_QUOTE_REGEX_exec: the text before the last quote
\* character of the string, whether that quote is closed or not.
UP_TO_UNMATCHED_QUOTE_REGEX_exec_lastQuote(s) ==
    LET quotes == {k \in 1..Len(s) : s[k] \in QuoteChars}
    IN IF quotes = {} THEN s
       ELSE SubSeq(s, 1, (CHOOSE k \in quotes : \A j \in quotes : j <= k) - 1)

\* Variant of UP_TO_UNMATCHED_QUOTE_REGEX_exec: the final run also stops at a
\* back-tick, /^(?:[^'"]*(?:"[^"]*"|'[^']*'))*[^'"]* with the back-tick added to the class.
UP_TO_UNMATCHED_QUOTE_REGEX_exec_backtick(s) ==
    LET p == QuotedSpansEnd(s, 1)
        q == IndexOfAny(s, QuoteChars \cup {Backtick}, p)
    IN IF q = 0 THEN s ELSE SubSeq(s, 1, q - 1)

\* UP_TO_UNMATCHED_QUOTE_REGEX.exec(s)[0]: the quoted spans, then [^'"]* up to
\* the next quote or the end of the string. The pattern matches every string.
UP_TO_UNMATCHED_QUOTE_REGEX_exec(s) ==
    LET p == QuotedSpansEnd(s, 1)
        q == IndexOfAny(s, QuoteChars, p)
    IN IF q = 0 THEN s ELSE SubSeq(s, 1, q - 1)

\* [\w:-]
AttrChars == WordChars \cup {":", "-"}

\* ENDS_WITH_ATTR_REGEX.exec(s): the leftmost i such that s[i..n-1] is a
\* non-empty run of [\w:-] and s[n] is "=". The result is <<>> for null and
\* <<group 1>> for a match.
ENDS_WITH_ATTR_REGEX_exec(s) ==
    LET n == Len(s)
        starts == {i \in 1..(n - 1) :
                     /\ s[n] = "="
                     /\ \A k \in i..(n - 1) : s[k] \in AttrChars}
    IN IF starts = {} THEN <<>>
       ELSE LET i == CHOOSE j \in starts : \A k \in starts : j <= k
            IN <<SubSeq(s, i, n - 1)>>

\* [\w$]
CallChars == WordChars \cup {"$"}

\* End of the greedy run [\w$]* that starts at index i.
RECURSIVE CallRunEnd(_, _)
CallRunEnd(s, i) ==
    IF i <= Len(s) /\ s[i] \in CallChars THEN CallRunEnd(s, i + 1) ELSE i - 1

\* The successive results of PARENS_REGEX.exec(s) from lastIndex i - 1 on,
\* until exec returns null: /([\w$]*\(|\))/g.
RECURSIVE PARENS_REGEX_matches(_, _)
PARENS_REGEX_matches(s, i) ==
    IF i > Len(s) THEN <<>>
    ELSE LET e == CallRunEnd(s, i)
         IN IF e + 1 <= Len(s) /\ s[e + 1] = "("
            THEN <<SubSeq(s, i, e + 1)>> \o PARENS_REGEX_matches(s, e + 2)
            ELSE IF s[i] = ")"
            THEN <<SubSeq(s, i, i)>> \o PARENS_REGEX_matches(s, i + 1)
            ELSE PARENS_REGEX_matches(s, i + 1)

\* ------------------------------------------------------------------------
\* State
\* ------------------------------------------------------------------------

VARIABLES
    cssClassesByFile,   \* the Map<string, Set<string>> of the extractor
    updates,            \* per slot: the updateCssClassesForFile call and its promise
    errorCount,         \* number of console.error calls made
    recency,            \* history: files with an entry, by last completed update
    lastOp,             \* history: the operation that ran last
    prev,               \* history: the extractor's state before that operation
    extraction,         \* the last extractClassNames call: its argument and result
    activation,         \* the state of activate(): providers, watchers, running scans
    document,           \* the lines of the TextDocument of the editor
    position,           \* the cursor: zero-based line and character
    request,            \* the last isInContext call: its options and its result
    response            \* what the last completion request returned

registryVars ==
    <<cssClassesByFile, updates, errorCount, recency, lastOp, prev, extraction, activation>>

editorVars == <<document, position, request, response>>

vars == <<cssClassesByFile, updates, errorCount, recency, lastOp, prev, extraction,
          activation, document, position, request, response>>

NoOp == [kind |-> "init", slot |-> "", file |-> "", text |-> <<>>]

\* The part of the state that `prev` keeps.
Snapshot == [cssClassesByFile |-> cssClassesByFile, errorCount |-> errorCount]

NoSnapshot == [cssClassesByFile |-> <<>>, errorCount |-> 0]

\* A slot in which no call was made yet.
IdleCall == [status |-> "idle", file |-> "", after |-> {}]

\* A slot whose call has returned and whose promise is fulfilled.
FulfilledCall == [status |-> "fulfilled", file |-> "", after |-> {}]

\* The slots whose call is suspended in readFile.
Reading == {u \in Slots : updates[u].status = "reading"}

NoRequest == [made |-> FALSE, opts |-> [quote |-> FALSE, attrs |-> <<>>, fns |-> <<>>],
              matched |-> FALSE, reads |-> <<>>, raised |-> FALSE, lastIndex |-> 0]

\* activate() is not part of the behaviour: nothing is registered.
NoActivation ==
    [patterns |-> <<>>, setups |-> 0, currentProviders |-> <<>>, currentWatchers |-> <<>>,
     scans |-> <<>>, changes |-> 0, event |-> ""]

\* extractClassNames was not called yet.
NoExtraction == [content |-> <<>>, called |-> FALSE, classNames |-> <<>>]

\* No completion request was answered yet. Of an answer: whether a list was
\* returned (FALSE for undefined), the list, and the number of items() calls.
NoResponse == [made |-> FALSE, defined |-> FALSE, list |-> <<>>, itemsCalls |-> 0]

Init ==
    /\ cssClassesByFile = <<>>
    /\ updates = [u \in Slots |-> IdleCall]
    /\ errorCount = 0
    /\ recency = <<>>
    /\ lastOp = NoOp
    /\ prev = NoSnapshot
    /\ extraction = NoExtraction
    /\ activation = NoActivation
    /\ document = << <<>> >>
    /\ position = [line |-> 0, character |-> 0]
    /\ request = NoRequest
    /\ response = NoResponse

\* ------------------------------------------------------------------------
\* CssClassExtractor
\* ------------------------------------------------------------------------

\* items(): the merged list of class names.
RECURSIVE itemsLoop(_, _, _)
itemsLoop(m, files, cssClasses) ==
    IF files = <<>> THEN cssClasses
    ELSE itemsLoop(m, Tail(files),
                   IF MapHas(m, Head(files))
                   THEN SetAddAll(cssClasses, MapGet(m, Head(files)))
                   ELSE cssClasses)

\* Variant of itemsOf: the keys are visited in insertion order (no reverse).
itemsOf_insertionOrder(m) == itemsLoop(m, MapKeys(m), <<>>)

itemsOf(m) == itemsLoop(m, Reverse(MapKeys(m)), <<>>)

items == itemsOf(cssClassesByFile)

\* Variant of updateEntry: the map is left alone when the file already has
\* an entry with the same names.
updateEntry_skipUnchanged(m, filePath, content) ==
    LET classSet == NewSet(extractClassNames(content))
    IN IF MapHas(m, filePath) /\ MapGet(m, filePath) = classSet
       THEN m
       ELSE MapSet(MapDelete(m, filePath), filePath, classSet)

\* Variant of updateEntry: the delete and the set do not run in the same turn,
\* so that an update of a file with an entry leaves the file without one.
updateEntry_yieldAfterDelete(m, filePath, content) ==
    IF MapHas(m, filePath)
    THEN MapDelete(m, filePath)
    ELSE MapSet(m, filePath, NewSet(extractClassNames(content)))

\* Variant of updateEntry: the key is set without being deleted first.
updateEntry_noDelete(m, filePath, content) ==
    MapSet(m, filePath, NewSet(extractClassNames(content)))

\* Variant of updateEntry: the new names are added to the names already stored.
updateEntry_merge(m, filePath, content) ==
    LET old == IF MapHas(m, filePath) THEN MapGet(m, filePath) ELSE <<>>
        classSet == SetAddAll(old, extractClassNames(content))
    IN MapSet(MapDelete(m, filePath), filePath, classSet)

\* The statements of updateCssClassesForFile after a successful read.
updateEntry(m, filePath, content) ==
    LET classNames == extractClassNames(content)
        classSet == NewSet(classNames)
    IN MapSet(MapDelete(m, filePath), filePath, classSet)

\* A watcher event or a scan calls updateCssClassesForFile(filePath): the call
\* runs up to `await this.fileSystem.readFile(...)` and is suspended there.
\* `after` records the calls that were already suspended (they arrived first).
updateCssClassesForFile_call(u, filePath) ==
    /\ updates[u].status # "reading"
    /\ updates' = [updates EXCEPT
                      ![u] = [status |-> "reading", file |-> filePath, after |-> Reading]]
    /\ lastOp' = [kind |-> "call", slot |-> u, file |-> filePath, text |-> <<>>]
    /\ prev' = Snapshot
    /\ UNCHANGED <<cssClassesByFile, errorCount, recency, extraction, activation, editorVars>>

\* The read of slot u is fulfilled with `content`; the rest of the try block
\* runs without interruption and the promise of the call is fulfilled.
updateCssClassesForFile_resume(u, content) ==
    /\ updates[u].status = "reading"
    /\ LET filePath == updates[u].file
       IN /\ cssClassesByFile' = updateEntry(cssClassesByFile, filePath, content)
          /\ recency' = Append(SelectSeq(recency, LAMBDA g : g # filePath), filePath)
          /\ lastOp' = [kind |-> "resume", slot |-> u, file |-> filePath,
                       text |-> content]
    /\ updates' = [updates EXCEPT ![u] = FulfilledCall]
    /\ prev' = Snapshot
    /\ UNCHANGED <<errorCount, extraction, activation, editorVars>>

\* Variant of updateCssClassesForFile_catch: the entry was deleted before the
\* read, so a failed read leaves the file without an entry.
updateCssClassesForFile_catch_deleted(u) ==
    /\ updates[u].status = "reading"
    /\ errorCount < MaxErrors
    /\ errorCount' = errorCount + 1
    /\ updates' = [updates EXCEPT ![u] = FulfilledCall]
    /\ lastOp' = [kind |-> "catch", slot |-> u, file |-> updates[u].file,
                  text |-> <<>>]
    /\ prev' = Snapshot
    /\ cssClassesByFile' = MapDelete(cssClassesByFile, updates[u].file)
    /\ recency' = SelectSeq(recency, LAMBDA g : g # updates[u].file)
    /\ UNCHANGED <<extraction, activation, editorVars>>

\* The read of slot u is rejected; the catch block logs and the promise of
\* the call is fulfilled.
updateCssClassesForFile_catch(u) ==
    /\ updates[u].status = "reading"
    /\ errorCount < MaxErrors
    /\ errorCount' = errorCount + 1
    /\ updates' = [updates EXCEPT ![u] = FulfilledCall]
    /\ lastOp' = [kind |-> "catch", slot |-> u, file |-> updates[u].file,
                  text |-> <<>>]
    /\ prev' = Snapshot
    /\ UNCHANGED <<cssClassesByFile, recency, extraction, activation, editorVars>>

\* Variant of removeCssClassesForFile: the whole map is cleared.
removeCssClassesForFile_clear(filePath) ==
    /\ cssClassesByFile' = <<>>
    /\ recency' = <<>>
    /\ lastOp' = [kind |-> "remove", slot |-> "", file |-> filePath, text |-> <<>>]
    /\ prev' = Snapshot
    /\ UNCHANGED <<updates, errorCount, extraction, activation, editorVars>>

\* Variant of removeCssClassesForFile: a file without an entry is reported
\* with console.error.
removeCssClassesForFile_reportsAbsent(filePath) ==
    /\ cssClassesByFile' = MapDelete(cssClassesByFile, filePath)
    /\ recency' = SelectSeq(recency, LAMBDA g : g # filePath)
    /\ errorCount' = IF MapHas(cssClassesByFile, filePath) \/ errorCount >= MaxErrors
                     THEN errorCount
                     ELSE errorCount + 1
    /\ lastOp' = [kind |-> "remove", slot |-> "", file |-> filePath, text |-> <<>>]
    /\ prev' = Snapshot
    /\ UNCHANGED <<updates, extraction, activation, editorVars>>

\* removeCssClassesForFile(filePath): no await, runs at once.
removeCssClassesForFile(filePath) ==
    /\ cssClassesByFile' = MapDelete(cssClassesByFile, filePath)
    /\ recency' = SelectSeq(recency, LAMBDA g : g # filePath)
    /\ lastOp' = [kind |-> "remove", slot |-> "", file |-> filePath, text |-> <<>>]
    /\ prev' = Snapshot
    /\ UNCHANGED <<updates, errorCount, extraction, activation, editorVars>>

\* Variant of reset: the entry that was set last survives.
reset_newestKept ==
    /\ cssClassesByFile' = IF cssClassesByFile = <<>>
                           THEN <<>>
                           ELSE <<cssClassesByFile[Len(cssClassesByFile)]>>
    /\ recency' = <<>>
    /\ lastOp' = [kind |-> "reset", slot |-> "", file |-> "", text |-> <<>>]
    /\ prev' = Snapshot
    /\ UNCHANGED <<updates, errorCount, extraction, activation, editorVars>>

\* reset(): Map.prototype.clear.
reset ==
    /\ cssClassesByFile' = <<>>
    /\ recency' = <<>>
    /\ lastOp' = [kind |-> "reset", slot |-> "", file |-> "", text |-> <<>>]
    /\ prev' = Snapshot
    /\ UNCHANGED <<updates, errorCount, extraction, activation, editorVars>>

\* ------------------------------------------------------------------------
\* CssClassCompletionProvider.isInContext
\* ------------------------------------------------------------------------

\* document.lineAt(lineNum).text
lineAt(doc, lineNum) == doc[lineNum + 1]

\* Variant of scanParens: a close does not pop, so that a call closed on the
\* line stays on the stack.
RECURSIVE scanParens_closedCallsStay(_, _, _)
scanParens_closedCallsStay(tokens, parensStack, negativeParensStack) ==
    IF tokens = <<>>
    THEN [parensStack |-> parensStack, negativeParensStack |-> negativeParensStack]
    ELSE LET parens == Head(tokens)
         IN IF parens[Len(parens)] = "("
            THEN scanParens_closedCallsStay(Tail(tokens), Append(parensStack, parens),
                                            negativeParensStack)
            ELSE scanParens_closedCallsStay(Tail(tokens), parensStack,
                                            negativeParensStack)

\* The while loop over PARENS_REGEX.exec: opens are pushed, a close pops the
\* stack or, when the stack is empty, goes to the negative stack.
RECURSIVE scanParens(_, _, _)
scanParens(tokens, parensStack, negativeParensStack) ==
    IF tokens = <<>>
    THEN [parensStack |-> parensStack, negativeParensStack |-> negativeParensStack]
    ELSE LET parens == Head(tokens)
         IN IF parens[Len(parens)] = "("
            THEN scanParens(Tail(tokens), Append(parensStack, parens),
                            negativeParensStack)
            ELSE IF parensStack # <<>>
            THEN scanParens(Tail(tokens), SubSeq(parensStack, 1, Len(parensStack) - 1),
                            negativeParensStack)
            ELSE scanParens(Tail(tokens), parensStack,
                            Append(negativeParensStack, parens))

\* Variant of applyPriorStack: the closes carried over from the newer line are
\* not applied to the stack of the line.
applyPriorStack_notApplied(priorStack, parensStack, negativeParensStack) ==
    [parensStack |-> parensStack, negativeParensStack |-> negativeParensStack \o priorStack]

\* Variant of applyPriorStack: a close carried over from the newer line that
\* finds the stack empty is dropped.
RECURSIVE applyPriorStack_dropsExcess(_, _, _)
applyPriorStack_dropsExcess(priorStack, parensStack, negativeParensStack) ==
    IF priorStack = <<>>
    THEN [parensStack |-> parensStack, negativeParensStack |-> negativeParensStack]
    ELSE IF parensStack # <<>>
    THEN applyPriorStack_dropsExcess(Tail(priorStack),
                                     SubSeq(parensStack, 1, Len(parensStack) - 1),
                                     negativeParensStack)
    ELSE applyPriorStack_dropsExcess(Tail(priorStack), parensStack, negativeParensStack)

\* The for loop over priorStack: each close carried over from the newer line
\* pops the stack or goes to the negative stack.
RECURSIVE applyPriorStack(_, _, _)
applyPriorStack(priorStack, parensStack, negativeParensStack) ==
    IF priorStack = <<>>
    THEN [parensStack |-> parensStack, negativeParensStack |-> negativeParensStack]
    ELSE IF parensStack # <<>>
    THEN applyPriorStack(Tail(priorStack), SubSeq(parensStack, 1, Len(parensStack) - 1),
                         negativeParensStack)
    ELSE applyPriorStack(Tail(priorStack), parensStack,
                         Append(negativeParensStack, Head(priorStack)))

\* PARENS_REGEX.lastIndex: the scan position of the module-level global
\* pattern, which every call of isInContext shares.
PARENS_REGEX_lastIndex == request.lastIndex

\* Variant of lastIndexAfterScan: the position stays where the last search
\* ended, at the end of the line.
lastIndexAfterScan_notReset(lineContent, lastIndex) == Len(lineContent)

\* lastIndex after the while loop over PARENS_REGEX.exec: the loop only ends
\* when exec finds no further match, and exec then sets lastIndex to 0.
lastIndexAfterScan(lineContent, lastIndex) == 0

\* The outcome of a call of isInContext: the value returned, the line numbers
\* passed to document.lineAt after the cursor line, in order, and whether
\* lineAt was called with a line number that the document does not have
\* (vscode's lineAt throws on it).
Returns(value) ==
    [matched |-> value, reads |-> <<>>, raised |-> FALSE,
     lastIndex |-> PARENS_REGEX_lastIndex]

Throws(lineNum) ==
    [matched |-> FALSE, reads |-> <<lineNum>>, raised |-> TRUE,
     lastIndex |-> PARENS_REGEX_lastIndex]

\* Variant of stacksConclude: only a single open call ends the scan.
stacksConclude_onlySingle(parensStack) == Len(parensStack) = 1

\* `if (parensStack.length)`: the pass ends the scan.
stacksConclude(parensStack) == parensStack # <<>>

\* Variant of calleeOfTop: the call that was opened first.
calleeOfTop_bottom(parensStack) == SubSeq(parensStack[1], 1, Len(parensStack[1]) - 1)

\* parensStack[parensStack.length - 1].slice(0, -1)
calleeOfTop(parensStack) ==
    LET top == parensStack[Len(parensStack)]
    IN SubSeq(top, 1, Len(top) - 1)

\* Variant of whileCondition: i is not compared with MAX_LOOKBACK_LINES.
whileCondition_noLimit(pos, i) ==
    IF pos.line - (i + 1) < 0 THEN [proceed |-> FALSE, lineNum |-> pos.line - (i + 1)]
    ELSE [proceed |-> TRUE, lineNum |-> pos.line - (i + 1)]

\* Variant of whileCondition: the line number is not compared with 0.
whileCondition_noFirstLineCheck(pos, i) ==
    IF i + 1 >= MAX_LOOKBACK_LINES THEN [proceed |-> FALSE, lineNum |-> pos.line - (i + 1)]
    ELSE [proceed |-> TRUE, lineNum |-> pos.line - (i + 1)]

\* The condition of the do ... while loop after pass i: whether there is
\* another pass, and the number of the line it reads.
whileCondition(pos, i) ==
    IF i + 1 >= MAX_LOOKBACK_LINES THEN [proceed |-> FALSE, lineNum |-> pos.line - (i + 1)]
    ELSE IF pos.line - (i + 1) < 0 THEN [proceed |-> FALSE, lineNum |-> pos.line - (i + 1)]
    ELSE [proceed |-> TRUE, lineNum |-> pos.line - (i + 1)]

\* The do ... while loop: pass number i over lineContent.
RECURSIVE lookbackLoop(_, _, _, _, _, _, _)
lookbackLoop(doc, pos, fns, i, lineContent, priorStack, lastIndex) ==
    LET scanned == scanParens(PARENS_REGEX_matches(lineContent, lastIndex + 1), <<>>, <<>>)
        scannedTo == lastIndexAfterScan(lineContent, lastIndex)
        stacks == applyPriorStack(priorStack, scanned.parensStack,
                                  scanned.negativeParensStack)
        condition == whileCondition(pos, i)
    IN IF stacksConclude(stacks.parensStack)
       THEN [Returns(Includes(fns, calleeOfTop(stacks.parensStack)))
                EXCEPT !.lastIndex = scannedTo]
       ELSE IF ~condition.proceed THEN [Returns(FALSE) EXCEPT !.lastIndex = scannedTo]
       ELSE IF condition.lineNum \notin 0..(Len(doc) - 1)
       THEN [Throws(condition.lineNum) EXCEPT !.lastIndex = scannedTo]
       ELSE LET rest == lookbackLoop(doc, pos, fns, i + 1, lineAt(doc, condition.lineNum),
                                     stacks.negativeParensStack, scannedTo)
            IN [rest EXCEPT !.reads = <<condition.lineNum>> \o @]

\* Variant of checkAttrsThenFns: an attribute that is not listed does not end
\* the check, the function calls are looked at next.
checkAttrsThenFns_fallThrough(doc, pos, opts, lineContent) ==
    LET attrMatch == ENDS_WITH_ATTR_REGEX_exec(lineContent)
    IN IF opts.attrs # <<>> /\ attrMatch # <<>> /\ Includes(opts.attrs, attrMatch[1])
       THEN Returns(TRUE)
       ELSE IF opts.fns = <<>> THEN Returns(FALSE)
       ELSE lookbackLoop(doc, pos, opts.fns, 0, lineContent, <<>>, PARENS_REGEX_lastIndex)

\* The attribute check and what follows it, on the line cut at the open quote.
checkAttrsThenFns(doc, pos, opts, lineContent) ==
    LET attrMatch == ENDS_WITH_ATTR_REGEX_exec(lineContent)
    IN IF opts.attrs # <<>> /\ attrMatch # <<>>
       THEN Returns(Includes(opts.attrs, attrMatch[1]))
       ELSE IF opts.fns = <<>> THEN Returns(FALSE)
       ELSE lookbackLoop(doc, pos, opts.fns, 0, lineContent, <<>>, PARENS_REGEX_lastIndex)

\* Variant of isInContextRun: a line without an open quote is rejected whether
\* or not the options require the quote.
isInContextRun_quoteAlwaysRequired(doc, pos, opts) ==
    LET lineContent == SubSeq(lineAt(doc, pos.line), 1, pos.character)
        beforeOpenQuote == UP_TO_UNMATCHED_QUOTE_REGEX_exec(lineContent)
    IN IF Len(beforeOpenQuote) = Len(lineContent)
       THEN Returns(FALSE)
       ELSE checkAttrsThenFns(doc, pos, opts, beforeOpenQuote)

\* The body of isInContext, with its outcome.
isInContextRun(doc, pos, opts) ==
    LET lineContent == SubSeq(lineAt(doc, pos.line), 1, pos.character)
        beforeOpenQuote == UP_TO_UNMATCHED_QUOTE_REGEX_exec(lineContent)
    IN IF opts.quote /\ Len(beforeOpenQuote) = Len(lineContent)
       THEN Returns(FALSE)
       ELSE checkAttrsThenFns(doc, pos, opts, beforeOpenQuote)

\* The value isInContext returns.
isInContext(doc, pos, opts) == isInContextRun(doc, pos, opts).matched

\* ------------------------------------------------------------------------
\* CssClassCompletionProvider.provideCompletionItems
\* ------------------------------------------------------------------------

\* [\w-]: the characters of a typed identifier fragment.
IdentifierChars == WordChars \cup {"-"}

\* The identifier fragment already typed: the trailing run of identifier
\* characters of the line up to the cursor.
RECURSIVE typedFragmentStart(_, _)
typedFragmentStart(lineContent, i) ==
    IF i >= 1 /\ lineContent[i] \in IdentifierChars
    THEN typedFragmentStart(lineContent, i - 1)
    ELSE i + 1

typedFragment(lineContent) ==
    SubSeq(lineContent, typedFragmentStart(lineContent, Len(lineContent)), Len(lineContent))

\* String.prototype.toLowerCase over the letters of the model.
toLowerCase(str) == [k \in 1..Len(str) |-> IF str[k] = "A" THEN "a" ELSE str[k]]

\* str starts with prefix, compared case-insensitively.
startsWithIgnoreCase(str, prefix) ==
    /\ Len(prefix) <= Len(str)
    /\ SubSeq(toLowerCase(str), 1, Len(prefix)) = toLowerCase(prefix)

\* Variant of assemble: the insertion text is the whole symbol.
assemble_fullText(matchResult, symbols) ==
    IF ~matchResult.matched
    THEN [made |-> TRUE, defined |-> FALSE, list |-> <<>>, itemsCalls |-> 0]
    ELSE LET kept == SelectSeq(symbols, LAMBDA symbol :
                         startsWithIgnoreCase(symbol, matchResult.typedPrefix))
         IN [made |-> TRUE, defined |-> TRUE, itemsCalls |-> 1,
             list |-> [k \in 1..Len(kept) |->
                         [label |-> kept[k], detail |-> "CSS class",
                          insertText |-> kept[k]]]]

\* assemble(matchResult, symbols) in suffix-completion mode: none when the
\* context does not match, otherwise one candidate per symbol that starts with
\* the typed prefix, its insertion text the symbol without that prefix.
assemble(matchResult, symbols) ==
    IF ~matchResult.matched
    THEN [made |-> TRUE, defined |-> FALSE, list |-> <<>>, itemsCalls |-> 0]
    ELSE LET kept == SelectSeq(symbols, LAMBDA symbol :
                         startsWithIgnoreCase(symbol, matchResult.typedPrefix))
         IN [made |-> TRUE, defined |-> TRUE, itemsCalls |-> 1,
             list |-> [k \in 1..Len(kept) |->
                         [label |-> kept[k], detail |-> "CSS class",
                          insertText |-> SubSeq(kept[k], Len(matchResult.typedPrefix) + 1,
                                                Len(kept[k]))]]]

\* document.getWordRangeAtPosition(position): the columns of the word that
\* ends at the cursor; `present` is FALSE for null, when no identifier
\* character stands in front of the cursor.
getWordRangeAtPosition(doc, pos) ==
    LET lineContent == SubSeq(lineAt(doc, pos.line), 1, pos.character)
        typed == typedFragment(lineContent)
    IN [present |-> typed # <<>>, start |-> pos.character - Len(typed),
        end |-> pos.character]

\* Variant of assembleReplace: only the symbols that start with the typed
\* prefix are returned.
assembleReplace_startsWithTyped(matchResult, symbols) ==
    IF ~matchResult.matched
    THEN [made |-> TRUE, defined |-> FALSE, list |-> <<>>, itemsCalls |-> 0]
    ELSE LET kept == SelectSeq(symbols, LAMBDA symbol :
                         startsWithIgnoreCase(symbol, matchResult.typedPrefix))
         IN [made |-> TRUE, defined |-> TRUE, itemsCalls |-> 1,
             list |-> [k \in 1..Len(kept) |->
                         [label |-> kept[k], detail |-> "CSS class",
                          insertText |-> kept[k], filterText |-> kept[k],
                          range |-> [start |-> matchResult.replaceRange.start,
                                     end |-> matchResult.replaceRange.end]]]]

\* assemble(matchResult, symbols) in replace mode: none when the context does
\* not match, otherwise one candidate per symbol, with the whole symbol as
\* insertion text and filter text and the range of the typed word.
assembleReplace(matchResult, symbols) ==
    IF ~matchResult.matched
    THEN [made |-> TRUE, defined |-> FALSE, list |-> <<>>, itemsCalls |-> 0]
    ELSE [made |-> TRUE, defined |-> TRUE, itemsCalls |-> 1,
          list |-> [k \in 1..Len(symbols) |->
                      [label |-> symbols[k], detail |-> "CSS class",
                       insertText |-> symbols[k], filterText |-> symbols[k],
                       range |-> [start |-> matchResult.replaceRange.start,
                                  end |-> matchResult.replaceRange.end]]]]

\* new vscode.CompletionItem(className, Value), with detail and insertText set.
CompletionItem(className) ==
    [label |-> className, detail |-> "CSS class", insertText |-> className]

\* Order of the characters in a sorted list.
CharOrder == <<"-", "2", "A", "_", "a", "b", "c", "f", "p">>

CharRank(c) == CHOOSE k \in 1..Len(CharOrder) : CharOrder[k] = c

RECURSIVE SortsBefore(_, _)
SortsBefore(x, y) ==
    IF x = <<>> THEN y # <<>>
    ELSE IF y = <<>> THEN FALSE
    ELSE IF Head(x) = Head(y) THEN SortsBefore(Tail(x), Tail(y))
    ELSE CharRank(Head(x)) < CharRank(Head(y))

\* Variant of provideCompletionItems: without a match the result is an empty
\* list.
provideCompletionItems_emptyList(doc, pos, opts, m) ==
    IF ~isInContext(doc, pos, opts)
    THEN [made |-> TRUE, defined |-> TRUE, list |-> <<>>, itemsCalls |-> 0]
    ELSE LET list == itemsOf(m)
         IN [made |-> TRUE, defined |-> TRUE, itemsCalls |-> 1,
             list |-> [k \in 1..Len(list) |-> CompletionItem(list[k])]]

\* Variant of provideCompletionItems: the class names are sorted.
provideCompletionItems_sorted(doc, pos, opts, m) ==
    IF ~isInContext(doc, pos, opts)
    THEN [made |-> TRUE, defined |-> FALSE, list |-> <<>>, itemsCalls |-> 0]
    ELSE LET list == SortSeq(itemsOf(m), SortsBefore)
         IN [made |-> TRUE, defined |-> TRUE, itemsCalls |-> 1,
             list |-> [k \in 1..Len(list) |-> CompletionItem(list[k])]]

\* Variant of provideCompletionItems: only the class names that start with the
\* typed fragment are returned.
provideCompletionItems_startsWithTyped(doc, pos, opts, m) ==
    IF ~isInContext(doc, pos, opts)
    THEN [made |-> TRUE, defined |-> FALSE, list |-> <<>>, itemsCalls |-> 0]
    ELSE LET typed == typedFragment(SubSeq(lineAt(doc, pos.line), 1, pos.character))
             list == SelectSeq(itemsOf(m), LAMBDA className :
                         startsWithIgnoreCase(className, typed))
         IN [made |-> TRUE, defined |-> TRUE, itemsCalls |-> 1,
             list |-> [k \in 1..Len(list) |-> CompletionItem(list[k])]]

\* provideCompletionItems(document, position) of a provider constructed with
\* `opts` over an extractor whose map is m: undefined when isInContext is
\* false, otherwise items() mapped to completion items.
provideCompletionItems(doc, pos, opts, m) ==
    IF ~isInContext(doc, pos, opts)
    THEN [made |-> TRUE, defined |-> FALSE, list |-> <<>>, itemsCalls |-> 0]
    ELSE LET list == itemsOf(m)
         IN [made |-> TRUE, defined |-> TRUE, itemsCalls |-> 1,
             list |-> [k \in 1..Len(list) |-> CompletionItem(list[k])]]

\* ------------------------------------------------------------------------
\* Editor: the document and cursor handed to the provider
\* ------------------------------------------------------------------------

\* A character is typed at the end of the cursor line (the last line).
TypeChar(c) ==
    /\ Len(document[Len(document)]) < MaxLineLen
    /\ document' = [document EXCEPT ![Len(document)] = Append(@, c)]
    /\ position' = [position EXCEPT !.character = @ + 1]
    /\ request' = [NoRequest EXCEPT !.lastIndex = request.lastIndex]
    /\ UNCHANGED response
    /\ UNCHANGED registryVars

\* A provider constructed with `opts` is asked about the cursor position.
CallIsInContext(opts) ==
    /\ \E run \in {isInContextRun(document, position, opts)} :
           request' = [made |-> TRUE, opts |-> opts, matched |-> run.matched,
                       reads |-> run.reads, raised |-> run.raised,
                       lastIndex |-> run.lastIndex]
    /\ UNCHANGED <<document, position, response>>
    /\ UNCHANGED registryVars

EditorNext ==
    \/ \E c \in TypedChars : TypeChar(c)
    \/ \E opts \in OptionsSet : CallIsInContext(opts)

\* The editor is opened on one of the documents, the cursor on its last line.
EditorInit ==
    /\ cssClassesByFile = <<>>
    /\ updates = [u \in Slots |-> IdleCall]
    /\ errorCount = 0
    /\ recency = <<>>
    /\ lastOp = NoOp
    /\ prev = NoSnapshot
    /\ extraction = NoExtraction
    /\ activation = NoActivation
    /\ document \in OpenDocuments
    /\ position = [line |-> Len(document) - 1, character |-> 0]
    /\ request = NoRequest
    /\ response = NoResponse

EditorSpec == EditorInit /\ [][EditorNext]_vars

\* ------------------------------------------------------------------------
\* Editor: a document of several lines, written line by line
\* ------------------------------------------------------------------------

\* A line is written below the last one; the cursor is at its end.
TypeLine(line) ==
    /\ Len(document) < MaxTypedLines
    /\ document' = Append(document, line)
    /\ position' = [line |-> Len(document), character |-> Len(line)]
    /\ request' = [NoRequest EXCEPT !.lastIndex = request.lastIndex]
    /\ UNCHANGED response
    /\ UNCHANGED registryVars

\* A blank line is inserted above the cursor line.
InsertBlankLine ==
    /\ Len(document) < MaxDocLines
    /\ document' = SubSeq(document, 1, Len(document) - 1)
                      \o <<LineBlank, document[Len(document)]>>
    /\ position' = [position EXCEPT !.line = @ + 1]
    /\ request' = [NoRequest EXCEPT !.lastIndex = request.lastIndex]
    /\ UNCHANGED response
    /\ UNCHANGED registryVars

\* The options of the JSX/TSX provider: quote, and a list of function names.
ScanOptions == {opts \in OptionsSet : opts.quote /\ opts.fns # <<>>}

ScanNext ==
    \/ \E line \in LineTemplates : TypeLine(line)
    \/ InsertBlankLine
    \/ \E opts \in ScanOptions : CallIsInContext(opts)

\* The document has one line, the cursor is at its end.
ScanInit ==
    /\ cssClassesByFile = <<>>
    /\ updates = [u \in Slots |-> IdleCall]
    /\ errorCount = 0
    /\ recency = <<>>
    /\ lastOp = NoOp
    /\ prev = NoSnapshot
    /\ extraction = NoExtraction
    /\ activation = NoActivation
    /\ \E line \in LineTemplates :
          /\ document = <<line>>
          /\ position = [line |-> 0, character |-> Len(line)]
    /\ request = NoRequest
    /\ response = NoResponse

ScanSpec == ScanInit /\ [][ScanNext]_vars

\* ------------------------------------------------------------------------
\* Completion requests over a registry that file events keep changing
\* ------------------------------------------------------------------------

\* The editor asks a provider constructed with `opts` for completion items.
CompletionRequest(opts) ==
    /\ response' = provideCompletionItems(document, position, opts, cssClassesByFile)
    /\ LET run == isInContextRun(document, position, opts)
       IN request' = [made |-> TRUE, opts |-> opts, matched |-> run.matched,
                      reads |-> run.reads, raised |-> run.raised, lastIndex |-> run.lastIndex]
    /\ lastOp' = [kind |-> "provideCompletionItems", slot |-> "", file |-> "",
                  text |-> <<>>]
    /\ prev' = Snapshot
    /\ UNCHANGED <<cssClassesByFile, updates, errorCount, recency, extraction, activation,
                 document,
                 position>>

\* The candidates are assembled in suffix-completion mode from the verdict of
\* isInContext, the typed fragment and, when the context matches, items().
AssembleRequest(opts) ==
    /\ LET run == isInContextRun(document, position, opts)
           lineContent == SubSeq(lineAt(document, position.line), 1, position.character)
           matchResult == [matched |-> run.matched,
                           typedPrefix |-> typedFragment(lineContent)]
       IN /\ response' = assemble(matchResult, IF run.matched THEN items ELSE <<>>)
          /\ request' = [made |-> TRUE, opts |-> opts, matched |-> run.matched,
                         reads |-> run.reads, raised |-> run.raised, lastIndex |-> run.lastIndex]
    /\ lastOp' = [kind |-> "assemble", slot |-> "", file |-> "", text |-> <<>>]
    /\ prev' = Snapshot
    /\ UNCHANGED <<cssClassesByFile, updates, errorCount, recency, extraction, activation,
                 document,
                 position>>

\* The document supplies a word range at the cursor and the candidates are
\* assembled in replace mode.
AssembleReplaceRequest(opts) ==
    /\ getWordRangeAtPosition(document, position).present
    /\ LET run == isInContextRun(document, position, opts)
           lineContent == SubSeq(lineAt(document, position.line), 1, position.character)
           matchResult == [matched |-> run.matched,
                           typedPrefix |-> typedFragment(lineContent),
                           replaceRange |-> getWordRangeAtPosition(document, position)]
       IN /\ response' = assembleReplace(matchResult, IF run.matched THEN items ELSE <<>>)
          /\ request' = [made |-> TRUE, opts |-> opts, matched |-> run.matched,
                         reads |-> run.reads, raised |-> run.raised, lastIndex |-> run.lastIndex]
    /\ lastOp' = [kind |-> "assembleReplace", slot |-> "", file |-> "", text |-> <<>>]
    /\ prev' = Snapshot
    /\ UNCHANGED <<cssClassesByFile, updates, errorCount, recency, extraction, activation,
                 document,
                 position>>

\* Variant of mapAfterItems: the entries are left in the order in which the
\* loop visited their keys.
mapAfterItems_visitingOrder(m) == Reverse(m)

\* The map after items(): Array.from copies the keys before reverse(), and the
\* loop reads the map with get() only.
mapAfterItems(m) == m

\* items() is called and returns.
items_call ==
    /\ cssClassesByFile' = mapAfterItems(cssClassesByFile)
    /\ lastOp' = [kind |-> "items", slot |-> "", file |-> "", text |-> items]
    /\ prev' = Snapshot
    /\ UNCHANGED <<updates, errorCount, recency, extraction, activation, editorVars>>

\* The options of the two providers that setupProviders registers: JSX/TSX
\* (attrs, fns, quote) and HTML (attrs only). The setting functionNames is
\* passed on as it is configured: ["f"], or ["f", ""] with an empty name.
ProviderOptions ==
    {[quote |-> TRUE, attrs |-> << <<"c">> >>, fns |-> << <<"f">> >>],
     [quote |-> TRUE, attrs |-> << <<"c">> >>, fns |-> << <<"f">>, <<>> >>],
     [quote |-> FALSE, attrs |-> << <<"c">> >>, fns |-> <<>>]}

ProviderNext ==
    \/ \E f \in ProviderFiles : updateCssClassesForFile_call("u1", f)
    \/ \E t \in ProviderTexts : updateCssClassesForFile_resume("u1", t)
    \/ \E f \in ProviderFiles : removeCssClassesForFile(f)
    \/ \E opts \in ProviderOptions : CompletionRequest(opts)
    \/ \E opts \in ProviderOptions : AssembleRequest(opts)
    \/ \E opts \in ProviderOptions : AssembleReplaceRequest(opts)
    \/ items_call

\* The registry is empty; the document is one of the cursor lines, the cursor
\* at its end.
ProviderInit ==
    /\ cssClassesByFile = <<>>
    /\ updates = [u \in Slots |-> IdleCall]
    /\ errorCount = 0
    /\ recency = <<>>
    /\ lastOp = NoOp
    /\ prev = NoSnapshot
    /\ extraction = NoExtraction
    /\ activation = NoActivation
    /\ \E line \in ProviderLines :
          /\ document = <<line>>
          /\ position = [line |-> 0, character |-> Len(line)]
    /\ request = NoRequest
    /\ response = NoResponse

ProviderSpec == ProviderInit /\ [][ProviderNext]_vars

\* ------------------------------------------------------------------------
\* Extraction: texts written character by character and extracted
\* ------------------------------------------------------------------------

\* A character is appended to the text.
TypeContent(c) ==
    /\ Len(extraction.content) < MaxContentLen
    /\ extraction' = [content |-> Append(extraction.content, c), called |-> FALSE,
                      classNames |-> <<>>]
    /\ UNCHANGED <<cssClassesByFile, updates, errorCount, recency, lastOp, prev, activation>>
    /\ UNCHANGED editorVars

\* extractClassNames is called with the text.
CallExtractClassNames ==
    /\ extraction' = [extraction EXCEPT !.called = TRUE,
                         !.classNames = extractClassNames(extraction.content)]
    /\ UNCHANGED <<cssClassesByFile, updates, errorCount, recency, lastOp, prev, activation>>
    /\ UNCHANGED editorVars

\* The text is the content of the file "f1", which is updated through slot
\* "u1".
ExtractNext ==
    \/ \E c \in ContentChars : TypeContent(c)
    \/ CallExtractClassNames
    \/ updateCssClassesForFile_call("u1", "f1")
    \/ updateCssClassesForFile_resume("u1", extraction.content)

\* The text is empty or one of the file texts.
ExtractInit ==
    /\ cssClassesByFile = <<>>
    /\ updates = [u \in Slots |-> IdleCall]
    /\ errorCount = 0
    /\ recency = <<>>
    /\ lastOp = NoOp
    /\ prev = NoSnapshot
    /\ \E text \in {<<>>} \cup Texts \cup ProviderTexts :
          extraction = [content |-> text, called |-> FALSE, classNames |-> <<>>]
    /\ activation = NoActivation
    /\ document = << <<>> >>
    /\ position = [line |-> 0, character |-> 0]
    /\ request = NoRequest
    /\ response = NoResponse

ExtractSpec == ExtractInit /\ [][ExtractNext]_vars

\* ------------------------------------------------------------------------
\* activate: providers, watchers, scans and configuration changes
\* ------------------------------------------------------------------------

\* setupProviders: the providers registered before are disposed and dropped,
\* the JSX/TSX and the HTML provider are registered anew.
setupProviders(a) ==
    [a EXCEPT !.setups = @ + 1,
              !.currentProviders = <<[language |-> "jsx", setup |-> a.setups + 1],
                                     [language |-> "html", setup |-> a.setups + 1]>>]

\* setupCssFileWatchers up to `await Promise.all(...)`: the watchers are
\* disposed and dropped, one watcher is created for each configured pattern,
\* and the findFiles calls of a new scan are pending. (reset() is part of the
\* actions that call this.)
setupCssFileWatchers_start(a, patterns) ==
    [a EXCEPT !.patterns = patterns,
              !.currentWatchers = [k \in 1..Len(patterns) |->
                                      [pattern |-> patterns[k], scan |-> Len(a.scans) + 1]],
              !.scans = Append(@, [patterns |-> patterns, stage |-> "finding",
                                   files |-> <<>>])]

\* styleFiles.flat(): the files found for the patterns, in order.
RECURSIVE findAllFiles(_)
findAllFiles(patterns) ==
    IF patterns = <<>> THEN <<>>
    ELSE FilesMatching(Head(patterns)) \o findAllFiles(Tail(patterns))

\* Variant of onDidChangeConfiguration: setupCssFileWatchers is called for
\* every event that affects cssClassAutocomplete.
onDidChangeConfiguration_alwaysRescans(e, patterns) ==
    /\ activation.changes < MaxConfigChanges
    /\ (e = "styleFilePatterns") = (patterns # activation.patterns)
    /\ LET counted == [activation EXCEPT !.changes = @ + 1, !.event = e]
       IN IF e = "unrelated"
          THEN /\ activation' = counted
               /\ UNCHANGED <<cssClassesByFile, recency>>
          ELSE /\ activation' = setupCssFileWatchers_start(setupProviders(counted), patterns)
               /\ cssClassesByFile' = <<>>
               /\ recency' = <<>>
    /\ lastOp' = [kind |-> "onDidChangeConfiguration", slot |-> "", file |-> "",
                  text |-> <<>>]
    /\ prev' = Snapshot
    /\ UNCHANGED <<updates, errorCount, extraction, editorVars>>

\* The onDidChangeConfiguration handler for an event e; `patterns` is the
\* value of styleFilePatterns after the change, which differs from the value
\* before exactly when the event affects styleFilePatterns. The call of
\* setupCssFileWatchers runs up to its first await, reset() included.
onDidChangeConfiguration(e, patterns) ==
    /\ activation.changes < MaxConfigChanges
    /\ (e = "styleFilePatterns") = (patterns # activation.patterns)
    /\ LET counted == [activation EXCEPT !.changes = @ + 1, !.event = e]
       IN IF e = "unrelated"
          THEN /\ activation' = counted
               /\ UNCHANGED <<cssClassesByFile, recency>>
          ELSE IF e = "attributes"
          THEN /\ activation' = setupProviders(counted)
               /\ UNCHANGED <<cssClassesByFile, recency>>
          ELSE /\ activation' = setupCssFileWatchers_start(setupProviders(counted), patterns)
               /\ cssClassesByFile' = <<>>
               /\ recency' = <<>>
    /\ lastOp' = [kind |-> "onDidChangeConfiguration", slot |-> "", file |-> "",
                  text |-> <<>>]
    /\ prev' = Snapshot
    /\ UNCHANGED <<updates, errorCount, extraction, editorVars>>

\* The findFiles calls of scan k are fulfilled: the for loop starts and calls
\* updateCssClassesForFile for the first file, which is suspended at its read;
\* without files setupCssFileWatchers returns.
findFiles_resolve(k) ==
    /\ activation.scans[k].stage = "finding"
    /\ LET files == findAllFiles(activation.scans[k].patterns)
       IN activation' = [activation EXCEPT
                            !.scans[k] = [@ EXCEPT !.files = files,
                                                   !.stage = IF files = <<>> THEN "done"
                                                             ELSE "reading"]]
    /\ lastOp' = [kind |-> "findFiles", slot |-> "", file |-> "", text |-> <<>>]
    /\ prev' = Snapshot
    /\ UNCHANGED <<cssClassesByFile, updates, errorCount, recency, extraction, editorVars>>

\* The loop of scan k after the update of its current file: the update of
\* the next file is called and suspended, or setupCssFileWatchers returns.
scanLoop_next(a, k) ==
    [a EXCEPT !.scans[k] = [@ EXCEPT !.files = Tail(@),
                                     !.stage = IF Tail(a.scans[k].files) = <<>> THEN "done"
                                               ELSE "reading"]]

\* The read of the update that scan k awaits is fulfilled with `content`.
scanUpdate_resume(k, content) ==
    /\ activation.scans[k].stage = "reading"
    /\ LET filePath == Head(activation.scans[k].files)
       IN /\ cssClassesByFile' = updateEntry(cssClassesByFile, filePath, content)
          /\ recency' = Append(SelectSeq(recency, LAMBDA g : g # filePath), filePath)
          /\ lastOp' = [kind |-> "resume", slot |-> "scan", file |-> filePath,
                        text |-> content]
    /\ activation' = scanLoop_next(activation, k)
    /\ prev' = Snapshot
    /\ UNCHANGED <<updates, errorCount, extraction, editorVars>>

\* The read of the update that scan k awaits is rejected.
scanUpdate_catch(k) ==
    /\ activation.scans[k].stage = "reading"
    /\ errorCount < MaxErrors
    /\ errorCount' = errorCount + 1
    /\ lastOp' = [kind |-> "catch", slot |-> "scan",
                  file |-> Head(activation.scans[k].files), text |-> <<>>]
    /\ activation' = scanLoop_next(activation, k)
    /\ prev' = Snapshot
    /\ UNCHANGED <<cssClassesByFile, updates, recency, extraction, editorVars>>

\* A watcher that is not disposed has a pattern that matches the file.
Watched(f) ==
    \E k \in 1..Len(activation.currentWatchers) :
        f \in SeqToSet(FilesMatching(activation.currentWatchers[k].pattern))

\* watcher.onDidChange and watcher.onDidCreate
watcher_onDidChange(f) == Watched(f) /\ updateCssClassesForFile_call("u1", f)

\* watcher.onDidDelete
watcher_onDidDelete(f) == Watched(f) /\ removeCssClassesForFile(f)

ActivationNext ==
    \/ \E e \in ConfigEvents, patterns \in StylePatternSets :
          onDidChangeConfiguration(e, patterns)
    \/ \E k \in 1..Len(activation.scans) : findFiles_resolve(k)
    \/ \E k \in 1..Len(activation.scans) : scanUpdate_resume(k, TextB)
    \/ \E k \in 1..Len(activation.scans) : scanUpdate_catch(k)
    \/ \E f \in ProviderFiles : watcher_onDidChange(f)
    \/ \E f \in ProviderFiles : watcher_onDidDelete(f)
    \/ updateCssClassesForFile_resume("u1", TextB)

\* activate() has returned: setupProviders has run, setupCssFileWatchers has
\* run up to its first await.
ActivationInit ==
    /\ cssClassesByFile = <<>>
    /\ updates = [u \in Slots |-> IdleCall]
    /\ errorCount = 0
    /\ recency = <<>>
    /\ lastOp = NoOp
    /\ prev = NoSnapshot
    /\ extraction = NoExtraction
    /\ \E patterns \in StylePatternSets :
          activation = setupCssFileWatchers_start(setupProviders(NoActivation), patterns)
    /\ document = << <<>> >>
    /\ position = [line |-> 0, character |-> 0]
    /\ request = NoRequest
    /\ response = NoResponse

ActivationSpec == ActivationInit /\ [][ActivationNext]_vars

Next ==
    \/ \E u \in Slots, f \in Files : updateCssClassesForFile_call(u, f)
    \/ \E u \in Slots, t \in Texts : updateCssClassesForFile_resume(u, t)
    \/ \E u \in Slots : updateCssClassesForFile_catch(u)
    \/ \E f \in Files : removeCssClassesForFile(f)
    \/ reset

Spec == Init /\ [][Next]_vars


\* ------------------------------------------------------------------------
\* Vocabulary of the properties
\* ------------------------------------------------------------------------

NoDuplicates(s) == \A i, j \in 1..Len(s) : s[i] = s[j] => i = j

\* Position of x in a duplicate-free list (0 when absent).
IndexIn(s, x) == IF \E k \in 1..Len(s) : s[k] = x
                 THEN CHOOSE k \in 1..Len(s) : s[k] = x
                 ELSE 0

\* The class names of file f in map m, as a set (empty without an entry).
ClassesOf(m, f) == IF MapHas(m, f) THEN SeqToSet(MapGet(m, f)) ELSE {}


\* Every element of `first` that is listed comes before every listed element
\* of `second`.
AllBefore(list, first, second) ==
    \A x \in first, y \in second :
        (IndexIn(list, x) # 0 /\ IndexIn(list, y) # 0) => IndexIn(list, x) < IndexIn(list, y)

\* The file of `recency` updated most recently among those that contain x.
NewestWith(x) ==
    LET holders == {k \in 1..Len(recency) : x \in ClassesOf(cssClassesByFile, recency[k])}
    IN CHOOSE k \in holders : \A h \in holders : h <= k

prevItems == itemsOf(prev.cssClassesByFile)

\* ------------------------------------------------------------------------
\* Properties of the registry (specification Spec)
\* ------------------------------------------------------------------------

\* C1: items() is the merge of the entries by recency of the last successful
\* update: it has no duplicate, it lists exactly the names of the entries, and
\* x precedes y exactly when the most recently updated file containing x is
\* more recent than the one containing y, or is the same file and lists x
\* before y.
C1_ItemsMergedByRecency ==
    LET list == items
    IN /\ NoDuplicates(recency)
       /\ SeqToSet(recency) = SeqToSet(MapKeys(cssClassesByFile))
       /\ NoDuplicates(list)
       /\ SeqToSet(list) = UNION {ClassesOf(cssClassesByFile, f) : f \in Files}
       /\ \A i, j \in 1..Len(list) :
            LET x == list[i]
                y == list[j]
                fx == NewestWith(x)
                fy == NewestWith(y)
                entry == MapGet(cssClassesByFile, recency[fx])
            IN i < j <=>
                 \/ fx > fy
                 \/ fx = fy /\ IndexIn(entry, x) < IndexIn(entry, y)

\* C1 witness: a name of the older of two files is listed after a name of the
\* newer file although the older file lists it first (shadowing by recency).
C1_Witness ==
    /\ Len(recency) >= 2
    /\ LET list == items
           oldest == MapGet(cssClassesByFile, recency[1])
       IN \E x, y \in SeqToSet(oldest) :
            /\ IndexIn(oldest, x) < IndexIn(oldest, y)
            /\ y \in ClassesOf(cssClassesByFile, recency[Len(recency)])
            /\ IndexIn(list, y) < IndexIn(list, x)

\* C2: when an update of f2 has just completed, every name of f2 is listed
\* before every name of any file f1 that was updated earlier and shares no name
\* with f2.
C2_LaterUpdateListedFirst ==
    lastOp.kind = "resume" =>
        \A f1 \in Files \ {lastOp.file} :
            LET S1 == ClassesOf(cssClassesByFile, f1)
                S2 == ClassesOf(cssClassesByFile, lastOp.file)
                list == items
            IN (MapHas(cssClassesByFile, f1) /\ S1 \cap S2 = {}) =>
                 /\ S1 \cup S2 \subseteq SeqToSet(list)
                 /\ AllBefore(list, S2, S1)

\* C2 witness: f2's update completed after f1's, both entries are non-empty
\* and disjoint.
C2_Witness ==
    /\ lastOp.kind = "resume"
    /\ \E f1 \in Files \ {lastOp.file} :
         /\ ClassesOf(cssClassesByFile, f1) # {}
         /\ ClassesOf(cssClassesByFile, lastOp.file) # {}
         /\ ClassesOf(cssClassesByFile, f1) \cap ClassesOf(cssClassesByFile, lastOp.file) = {}

\* C3: a successful update of a file that already has an entry leaves the file
\* last in the map, so that items() starts with exactly the file's names.
C3_ReupdateMovesToMostRecent ==
    (lastOp.kind = "resume" /\ MapHas(prev.cssClassesByFile, lastOp.file)) =>
        /\ cssClassesByFile # <<>>
        /\ cssClassesByFile[Len(cssClassesByFile)].file = lastOp.file
        /\ LET entry == MapGet(cssClassesByFile, lastOp.file)
           IN /\ Len(items) >= Len(entry)
              /\ SubSeq(items, 1, Len(entry)) = entry

\* C3 witness: the file was not the most recent one before the update and the
\* update stored the same names as before.
C3_Witness ==
    /\ lastOp.kind = "resume"
    /\ MapHas(prev.cssClassesByFile, lastOp.file)
    /\ prev.cssClassesByFile[Len(prev.cssClassesByFile)].file # lastOp.file
    /\ MapGet(prev.cssClassesByFile, lastOp.file) = MapGet(cssClassesByFile, lastOp.file)
    /\ MapGet(cssClassesByFile, lastOp.file) # <<>>
    /\ prevItems # items

\* C4: after a successful update of f the entry of f holds exactly the names
\* extracted from the text read, once each; a name that only f's previous
\* entry contained is no longer listed; every other file has the entry it had.
C4_EntryWhollyReplaced ==
    lastOp.kind = "resume" =>
        LET f == lastOp.file
            extracted == SeqToSet(extractClassNames(lastOp.text))
            old == ClassesOf(prev.cssClassesByFile, f)
            others == UNION {ClassesOf(prev.cssClassesByFile, g) : g \in Files \ {f}}
        IN /\ MapHas(cssClassesByFile, f)
           /\ NoDuplicates(MapGet(cssClassesByFile, f))
           /\ ClassesOf(cssClassesByFile, f) = extracted
           /\ \A x \in old \ (extracted \cup others) : x \notin SeqToSet(items)
           /\ \A g \in Files \ {f} :
                /\ MapHas(cssClassesByFile, g) <=> MapHas(prev.cssClassesByFile, g)
                /\ MapHas(cssClassesByFile, g) =>
                     MapGet(cssClassesByFile, g) = MapGet(prev.cssClassesByFile, g)

\* C4 witness: the update dropped a name that only the previous entry of the
\* file contained, while another file has an entry.
C4_Witness ==
    /\ lastOp.kind = "resume"
    /\ Len(cssClassesByFile) >= 2
    /\ \E x \in ClassesOf(prev.cssClassesByFile, lastOp.file) :
         /\ x \notin SeqToSet(extractClassNames(lastOp.text))
         /\ x \in SeqToSet(prevItems)
         /\ x \notin SeqToSet(items)
\* C5 (as stated): remove(f) takes exactly the names of f's entry out of
\* items() and leaves the other names in their order, in every registry state.
C5_Original_RemoveDropsAllNamesOfFile ==
    lastOp.kind = "remove" =>
        LET own == ClassesOf(prev.cssClassesByFile, lastOp.file)
        IN items = SelectSeq(prevItems, LAMBDA x : x \notin own)

\* C5 (amended): remove(f) takes out of items() exactly the names of f's entry
\* that no other file's entry contains, and the names that are not in f's
\* entry keep their relative order.
C5_RemoveDropsUnsharedNames ==
    lastOp.kind = "remove" =>
        LET own == ClassesOf(prev.cssClassesByFile, lastOp.file)
            others == UNION {ClassesOf(prev.cssClassesByFile, g) :
                               g \in Files \ {lastOp.file}}
            list == items
        IN /\ SeqToSet(list) = SeqToSet(prevItems) \ (own \ others)
           /\ SelectSeq(list, LAMBDA x : x \notin own)
                = SelectSeq(prevItems, LAMBDA x : x \notin own)
           /\ ~MapHas(cssClassesByFile, lastOp.file)
           /\ cssClassesByFile
                = SelectSeq(prev.cssClassesByFile, LAMBDA e : e.file # lastOp.file)

\* C5 witness: the removed file shared a name with a remaining file and had a
\* name of its own; two files remain, one of them with a name the removed file
\* did not have.
C5_Witness ==
    /\ lastOp.kind = "remove"
    /\ Len(cssClassesByFile) = 2
    /\ LET own == ClassesOf(prev.cssClassesByFile, lastOp.file)
           list == items
       IN /\ own \cap SeqToSet(list) # {}
          /\ own \ SeqToSet(list) # {}
          /\ SeqToSet(list) \ own # {}

\* C6: when the read of update(f) fails, the map is exactly what it was before
\* (entries and order), console.error was called once, and the promise of the
\* call is fulfilled, not rejected; no other operation logs an error.
C6_ReadFailureIsNoOp ==
    /\ lastOp.kind = "catch" =>
         /\ cssClassesByFile = prev.cssClassesByFile
         /\ errorCount = prev.errorCount + 1
         /\ updates[lastOp.slot].status = "fulfilled"
    /\ lastOp.kind # "catch" => errorCount = prev.errorCount
    /\ \A u \in Slots : updates[u].status # "rejected"

\* C6 witness: the read failed for a file that has an entry which is not the
\* most recent of the map.
C6_Witness ==
    /\ lastOp.kind = "catch"
    /\ MapHas(cssClassesByFile, lastOp.file)
    /\ MapGet(cssClassesByFile, lastOp.file) # <<>>
    /\ cssClassesByFile[Len(cssClassesByFile)].file # lastOp.file

\* C7: the keys of the map are in the order in which the last successful
\* update of each file completed, whatever the order in which the calls were
\* made, and the entry of a file is the one written by the update of that file
\* that completed last.
C7_CompletionOrderWins ==
    /\ MapKeys(cssClassesByFile) = recency
    /\ lastOp.kind = "resume" =>
         /\ MapGet(cssClassesByFile, lastOp.file) = NewSet(extractClassNames(lastOp.text))
         /\ recency[Len(recency)] = lastOp.file
         /\ \A u \in Reading :
              (updates[u].file # lastOp.file /\ MapHas(prev.cssClassesByFile, updates[u].file))
                 => MapGet(cssClassesByFile, updates[u].file)
                      = MapGet(prev.cssClassesByFile, updates[u].file)

\* C7 witness: an update completed while a call for the same file that was
\* made before it is still suspended in its read, and it changed the entry.
C7_Witness ==
    /\ lastOp.kind = "resume"
    /\ \E v \in Reading :
         /\ updates[v].after = {}
         /\ updates[v].file = lastOp.file
    /\ MapHas(prev.cssClassesByFile, lastOp.file)
    /\ MapGet(prev.cssClassesByFile, lastOp.file) # MapGet(cssClassesByFile, lastOp.file)
    /\ Len(cssClassesByFile) >= 2

\* C8: in every state in which items() can run, each file that has an entry has
\* either the complete entry it had before the last operation or the complete
\* set of names of the text that the last operation read for it; a file loses
\* its entry only by remove(f) or reset(), never by an update; and items()
\* lists every name of every entry.
C8_NoTornEntry ==
    \A f \in Files :
        /\ MapHas(cssClassesByFile, f) =>
             \/ /\ MapHas(prev.cssClassesByFile, f)
                /\ MapGet(cssClassesByFile, f) = MapGet(prev.cssClassesByFile, f)
             \/ /\ lastOp.kind = "resume"
                /\ lastOp.file = f
                /\ MapGet(cssClassesByFile, f) = NewSet(extractClassNames(lastOp.text))
        /\ (MapHas(prev.cssClassesByFile, f) /\ ~MapHas(cssClassesByFile, f)) =>
             \/ lastOp.kind = "remove" /\ lastOp.file = f
             \/ lastOp.kind = "reset"
        /\ ClassesOf(cssClassesByFile, f) \subseteq SeqToSet(items)

\* C8 witness: a file that had an entry was re-updated with other names while
\* another update is suspended in its read.
C8_Witness ==
    /\ lastOp.kind = "resume"
    /\ Reading # {}
    /\ MapHas(prev.cssClassesByFile, lastOp.file)
    /\ ClassesOf(prev.cssClassesByFile, lastOp.file)
         \cap ClassesOf(cssClassesByFile, lastOp.file) = {}
    /\ ClassesOf(cssClassesByFile, lastOp.file) # {}
\* ------------------------------------------------------------------------
\* Properties of the context detector (specification EditorSpec)
\* ------------------------------------------------------------------------

\* The text of the cursor line up to the cursor.
CursorLine == SubSeq(document[position.line + 1], 1, position.character)

\* Left-to-right scan of s from index i: `open` is 0 outside quotes and the
\* index of the opening quote inside a quoted span. The result is the index of
\* the quote left unterminated at the end of s, or 0.
RECURSIVE QuoteScan(_, _, _)
QuoteScan(s, i, open) ==
    IF i > Len(s) THEN open
    ELSE IF open = 0
    THEN QuoteScan(s, i + 1, IF s[i] \in QuoteChars THEN i ELSE 0)
    ELSE QuoteScan(s, i + 1, IF s[i] = s[open] THEN 0 ELSE open)

UnterminatedQuote(s) == QuoteScan(s, 1, 0)

\* Start of the run of attribute-name characters that ends at index i.
RECURSIVE NameStart(_, _)
NameStart(s, i) == IF i >= 1 /\ s[i] \in AttrChars THEN NameStart(s, i - 1) ELSE i + 1

\* s ends with `<identifier>=`.
EndsWithAttribute(s) ==
    /\ Len(s) >= 2
    /\ s[Len(s)] = "="
    /\ s[Len(s) - 1] \in AttrChars

\* The identifier in front of the final "=".
TrailingAttribute(s) == SubSeq(s, NameStart(s, Len(s) - 1), Len(s) - 1)

\* C9: with attrs non-empty, when the text of the cursor line before its open
\* quote ends with `<identifier>=`, the result of isInContext is true exactly
\* when that identifier is listed in attrs, whatever parentheses surround it.
C9_AttributeDecides ==
    (request.made /\ request.opts.attrs # <<>>) =>
        LET open == UnterminatedQuote(CursorLine)
            before == SubSeq(CursorLine, 1, open - 1)
        IN (open # 0 /\ EndsWithAttribute(before)) =>
             (request.matched <=> TrailingAttribute(before) \in SeqToSet(request.opts.attrs))

\* C9 witness: an attribute that is not listed is rejected at a cursor that is
\* nested in a call of a listed function (without attrs the same call of
\* isInContext returns true).
C9_Witness ==
    /\ request.made
    /\ request.opts.attrs # <<>>
    /\ ~request.matched
    /\ LET open == UnterminatedQuote(CursorLine)
       IN /\ open # 0
          /\ EndsWithAttribute(SubSeq(CursorLine, 1, open - 1))
    /\ isInContext(document, position, [request.opts EXCEPT !.attrs = <<>>])

\* C10: with quote required, when no single or double quote is left
\* unterminated in the cursor line up to the cursor, the result of isInContext
\* is false.
C10_BalancedQuotesNoMatch ==
    (request.made /\ request.opts.quote /\ UnterminatedQuote(CursorLine) = 0) =>
        ~request.matched

\* C10 witness: the cursor follows a closed quoted span in a position that
\* matches as soon as the quote is not required.
C10_Witness ==
    /\ request.made
    /\ request.opts.quote
    /\ ~request.matched
    /\ UnterminatedQuote(CursorLine) = 0
    /\ \E k \in 1..Len(CursorLine) : CursorLine[k] \in QuoteChars
    /\ isInContext(document, position, [request.opts EXCEPT !.quote = FALSE])

\* ------------------------------------------------------------------------
\* Properties of the call-nesting scan (specification ScanSpec)
\* ------------------------------------------------------------------------

\* The text of the cursor line before its open quote.
BeforeOpenQuote == SubSeq(CursorLine, 1, UnterminatedQuote(CursorLine) - 1)

\* The last isInContext call went on to the call-nesting scan: there are
\* function names, the quote that is required is open, and the attribute rule
\* did not decide.
NestingScanned ==
    /\ request.made
    /\ request.opts.fns # <<>>
    /\ request.opts.quote
    /\ UnterminatedQuote(CursorLine) # 0
    /\ ~(request.opts.attrs # <<>> /\ EndsWithAttribute(BeforeOpenQuote))

\* The lines first .. position.line of the document as one text: every line
\* above the cursor line with its line break, then the cursor line up to its
\* open quote.
RECURSIVE TextFrom(_)
TextFrom(first) ==
    IF first >= position.line THEN BeforeOpenQuote
    ELSE document[first + 1] \o <<"\n">> \o TextFrom(first + 1)

\* Opening minus closing parentheses among the first j characters of s.
Depth(s, j) ==
    Cardinality({k \in 1..j : s[k] = "("}) - Cardinality({k \in 1..j : s[k] = ")"})

\* The opening parentheses of s that no later closing parenthesis matches.
UnclosedOpens(s) ==
    {k \in 1..Len(s) : s[k] = "(" /\ \A j \in k..Len(s) : Depth(s, j) >= Depth(s, k)}

\* The identifier written directly in front of the parenthesis at index k.
RECURSIVE CalleeStart(_, _)
CalleeStart(s, i) == IF i >= 1 /\ s[i] \in CallChars THEN CalleeStart(s, i - 1) ELSE i + 1

CalleeAt(s, k) == SubSeq(s, CalleeStart(s, k - 1), k - 1)

Innermost(opens) == CHOOSE k \in opens : \A j \in opens : j <= k

\* The lines the scan has passed over: the cursor line and the lines read.
LinesScanned == {position.line} \cup SeqToSet(request.reads)

OldestScanned == position.line - Len(request.reads)

\* C11: when the scan has taken a line into account and exactly one call is
\* then left open (calls that are closed again do not count), the scan goes
\* no further back and isInContext returns true exactly when the identifier of
\* that call is one of the function names.
C11_SingleOpenCallDecides ==
    NestingScanned =>
        \A first \in LinesScanned :
            LET text == TextFrom(first)
                opens == UnclosedOpens(text)
            IN Cardinality(opens) = 1 =>
                 /\ first = OldestScanned
                 /\ request.matched <=>
                      CalleeAt(text, Innermost(opens)) \in SeqToSet(request.opts.fns)

\* C11 witness: the cursor is in the second argument of a call of f, after a
\* call of c that is opened and closed on the same line; the result is true.
C11_Witness ==
    /\ NestingScanned
    /\ request.matched
    /\ LET text == TextFrom(position.line)
       IN /\ Cardinality(UnclosedOpens(text)) = 1
          /\ Cardinality({k \in 1..Len(text) : text[k] = "("}) = 2

\* C12: when several calls are left open on the cursor line before the open
\* quote, isInContext returns true exactly when the identifier of the innermost
\* of them (the one opened last) is one of the function names.
C12_InnermostCallDecides ==
    NestingScanned =>
        LET opens == UnclosedOpens(BeforeOpenQuote)
        IN Cardinality(opens) >= 2 =>
             (request.matched <=> CalleeAt(BeforeOpenQuote, Innermost(opens))
                                    \in SeqToSet(request.opts.fns))

\* C12 witness: the cursor is in a call of a listed function that is an
\* argument of a call of a function that is not listed; the result is true.
C12_Witness ==
    /\ NestingScanned
    /\ request.matched
    /\ LET opens == UnclosedOpens(BeforeOpenQuote)
       IN /\ Cardinality(opens) >= 2
          /\ \E k \in opens :
                CalleeAt(BeforeOpenQuote, k) \notin SeqToSet(request.opts.fns)

\* C13 (as stated): when the scan has taken a line into account and more than
\* one call is then left open, the scan does not end on that line: it reads
\* the line above if there is one within the lookback, and otherwise the result
\* is false.
C13_Original_SeveralOpenCallsGoOn ==
    NestingScanned =>
        \A first \in LinesScanned :
            Cardinality(UnclosedOpens(TextFrom(first))) > 1 =>
                IF first > 0 /\ position.line - first < MAX_LOOKBACK_LINES - 1
                THEN first # OldestScanned
                ELSE ~request.matched

\* C13 (amended): when the scan has taken a line into account and more than
\* one call is then left open, the scan ends on that line and isInContext
\* returns true exactly when the identifier of the call opened last is one of
\* the function names.
C13_SeveralOpenCallsDecide ==
    NestingScanned =>
        \A first \in LinesScanned :
            LET text == TextFrom(first)
                opens == UnclosedOpens(text)
            IN Cardinality(opens) > 1 =>
                 /\ first = OldestScanned
                 /\ request.matched <=>
                      CalleeAt(text, Innermost(opens)) \in SeqToSet(request.opts.fns)

\* C13 witness: two calls are left open on a line above the cursor line, the
\* inner one of a listed function; the result is true and the line above that
\* line is not read.
C13_Witness ==
    /\ NestingScanned
    /\ request.matched
    /\ OldestScanned > 0
    /\ OldestScanned < position.line
    /\ Cardinality(UnclosedOpens(TextFrom(OldestScanned))) > 1

\* The oldest line within reach of the scan: the loop makes the passes
\* 0 .. MAX_LOOKBACK_LINES - 1, pass i over the line position.line - i.
WindowFirst ==
    IF position.line - (MAX_LOOKBACK_LINES - 1) > 0
    THEN position.line - (MAX_LOOKBACK_LINES - 1)
    ELSE 0

\* C14: the line-by-line scan with closes carried over to older lines gives
\* the result of matching the parentheses of the whole window as one text:
\* isInContext returns true exactly when a call is left open in the text from
\* the window's first line to the cursor's open quote and the identifier of
\* the innermost such call is one of the function names.
C14_ScanEqualsWholeTextMatching ==
    NestingScanned =>
        LET text == TextFrom(WindowFirst)
            opens == UnclosedOpens(text)
        IN request.matched <=>
             /\ opens # {}
             /\ CalleeAt(text, Innermost(opens)) \in SeqToSet(request.opts.fns)

\* C14 witness: the enclosing call of a listed function was opened on a line
\* above the cursor line, and a line below that one has a closing parenthesis
\* whose opening parenthesis is not on the same line.
C14_Witness ==
    /\ NestingScanned
    /\ request.matched
    /\ UnclosedOpens(BeforeOpenQuote) = {}
    /\ OldestScanned < position.line
    /\ \E n \in (OldestScanned + 1)..(position.line - 1) :
          \E j \in 1..Len(document[n + 1]) : Depth(document[n + 1], j) < 0

\* The line MAX_LOOKBACK_LINES lines above the cursor line, or the first line
\* of the document.
TenthLineAbove ==
    IF position.line - MAX_LOOKBACK_LINES > 0
    THEN position.line - MAX_LOOKBACK_LINES
    ELSE 0

\* C15: the scan covers the cursor line and the MAX_LOOKBACK_LINES = 10 lines
\* above it: isInContext returns true exactly when a call is left open in the
\* text from the tenth line above the cursor line to the cursor's open quote
\* and the innermost such call is of a listed function; a call opened further
\* back is not seen.
C15_TenLinesAboveCovered ==
    NestingScanned =>
        LET text == TextFrom(TenthLineAbove)
            opens == UnclosedOpens(text)
        IN request.matched <=>
             /\ opens # {}
             /\ CalleeAt(text, Innermost(opens)) \in SeqToSet(request.opts.fns)

\* C16: isInContext passes to document.lineAt only line numbers from 0 up and
\* nothing is thrown; when no call is left open in the text from the oldest
\* line it read to the cursor's open quote, that line is the first line of the
\* document or the last one within MAX_LOOKBACK_LINES passes, and the result
\* is false.
C16_ExhaustionIsNoMatch ==
    request.made =>
        /\ ~request.raised
        /\ \A k \in 1..Len(request.reads) : request.reads[k] >= 0
        /\ (NestingScanned /\ UnclosedOpens(TextFrom(OldestScanned)) = {}) =>
              /\ ~request.matched
              /\ OldestScanned = 0 \/ Len(request.reads) = MAX_LOOKBACK_LINES - 1

\* C16 witness: the scan read every line up to the first line of the document,
\* short of the lookback limit, found closing parentheses but no call left
\* open, and the result is false.
C16_Witness ==
    /\ NestingScanned
    /\ ~request.matched
    /\ ~request.raised
    /\ Len(request.reads) \in 1..(MAX_LOOKBACK_LINES - 2)
    /\ request.reads[Len(request.reads)] = 0
    /\ \E j \in 1..Len(TextFrom(0)) : TextFrom(0)[j] = ")"
    /\ UnclosedOpens(TextFrom(0)) = {}

\* ------------------------------------------------------------------------
\* Properties of the completion requests (specification ProviderSpec)
\* ------------------------------------------------------------------------

\* provideCompletionItems has just returned: the registry is the one it saw.
Provided == lastOp.kind = "provideCompletionItems"

\* The labels of the candidates returned, in order.
Labels == [k \in 1..Len(response.list) |-> response.list[k].label]

\* C17: when isInContext is false, provideCompletionItems returns undefined,
\* not a list, whatever entries the registry has, and items() is not called.
C17_NoMatchReturnsUndefined ==
    (Provided /\ ~request.matched) =>
        /\ ~response.defined
        /\ response.list = <<>>
        /\ response.itemsCalls = 0

\* C17 witness: the request was made outside the context while the registry
\* had class names to offer, and undefined was returned.
C17_Witness ==
    /\ Provided
    /\ ~request.matched
    /\ items # <<>>
    /\ ~response.defined

\* C18: when isInContext is true, provideCompletionItems returns one candidate
\* for each class name of items(), in the order of items(); the label of a
\* candidate is the class name and its detail is 'CSS class'.
C18_CandidatesFollowItems ==
    (Provided /\ request.matched) =>
        /\ response.defined
        /\ response.itemsCalls = 1
        /\ Len(response.list) = Len(items)
        /\ \A k \in 1..Len(items) :
              /\ response.list[k].label = items[k]
              /\ response.list[k].detail = "CSS class"

\* C18 witness: the class names of the most recently updated file come first
\* although they sort after the class names of the other file.
C18_Witness ==
    /\ Provided
    /\ request.matched
    /\ Len(response.list) >= 2
    /\ SortsBefore(response.list[2].label, response.list[1].label)
    /\ Len(recency) = 2
    /\ response.list[1].label \in ClassesOf(cssClassesByFile, recency[2])

\* The identifier fragment typed in front of the cursor.
TypedPrefix == typedFragment(CursorLine)

Assembled == lastOp.kind = "assemble"

\* Length of the longest run of identifier characters, "-" and "_" included,
\* that ends at the cursor.
TypedLength ==
    CHOOSE n \in 0..Len(CursorLine) :
        /\ \A j \in (Len(CursorLine) - n + 1)..Len(CursorLine) :
              CursorLine[j] \in WordChars \cup {"-"}
        /\ n = Len(CursorLine) \/ CursorLine[Len(CursorLine) - n] \notin WordChars \cup {"-"}

AssembledToReplace == lastOp.kind = "assembleReplace"

SigilStarts(text) ==
    {i \in 1..(Len(text) - 1) : text[i] = "." /\ text[i + 1] \in Letters}

\* The longest run of letters, digits, "_" and "-" that follows index i.
NameAfter(text, i) ==
    LET last == CHOOSE e \in i..Len(text) :
                    /\ \A j \in (i + 1)..e : text[j] \in Letters \cup Digits \cup {"_", "-"}
                    /\ e = Len(text) \/ text[e + 1] \notin Letters \cup Digits \cup {"_", "-"}
    IN SubSeq(text, i + 1, last)

\* C22: extractClassNames returns one element for every "." of the text that
\* is followed by a letter, in the order of these in the text: the name that
\* follows the ".", without the ".". A name that occurs twice is returned
\* twice.
C22_ExtractListsEveryMatchInOrder ==
    extraction.called =>
        LET starts == SigilStarts(extraction.content)
        IN /\ Len(extraction.classNames) = Cardinality(starts)
           /\ \A i \in starts :
                 extraction.classNames[1 + Cardinality({j \in starts : j < i})]
                     = NameAfter(extraction.content, i)

\* C22 witness: the text names a class, another class, and the first class
\* again; the result has the three names in that order.
C22_Witness ==
    /\ extraction.called
    /\ Len(extraction.classNames) = 3
    /\ extraction.classNames[1] = extraction.classNames[3]
    /\ extraction.classNames[1] # extraction.classNames[2]

\* C23: extractClassNames returns a list for every text, and the empty list
\* for the empty text and for every text in which no "." is followed by a
\* letter.
C23_ExtractIsTotal ==
    extraction.called =>
        /\ DOMAIN extraction.classNames = 1..Len(extraction.classNames)
        /\ (~\E i \in 1..(Len(extraction.content) - 1) :
                /\ extraction.content[i] = "."
                /\ extraction.content[i + 1] \in Letters)
              => extraction.classNames = <<>>

\* C23 witness: a text that has a "." and a letter, but no "." in front of a
\* letter, gives the empty list.
C23_Witness ==
    /\ extraction.called
    /\ extraction.classNames = <<>>
    /\ \E i \in 1..Len(extraction.content) : extraction.content[i] = "."
    /\ \E i \in 1..Len(extraction.content) : extraction.content[i] \in Letters

\* A non-empty name that starts with a letter and goes on with letters,
\* digits, "_" and "-".
WellFormedName(name) ==
    /\ name # <<>>
    /\ name[1] \in Letters
    /\ \A k \in 1..Len(name) : name[k] \in Letters \cup Digits \cup {"_", "-"}

\* C24: every name that extractClassNames returns, that an entry of the map
\* holds or that items() lists is well formed, and a name that
\* extractClassNames returns stands in the text directly behind a ".": a "."
\* followed by a digit gives no name, not even the rest of it.
C24_NamesStartWithLetter ==
    /\ \A k \in 1..Len(extraction.classNames) :
          /\ WellFormedName(extraction.classNames[k])
          /\ \E i \in 1..Len(extraction.content) :
                /\ extraction.content[i] = "."
                /\ SubSeq(extraction.content, i + 1, i + Len(extraction.classNames[k]))
                     = extraction.classNames[k]
    /\ \A e \in 1..Len(cssClassesByFile) :
          \A k \in 1..Len(cssClassesByFile[e].classes) :
              WellFormedName(cssClassesByFile[e].classes[k])
    /\ \A k \in 1..Len(items) : WellFormedName(items[k])

\* C24 witness: the text has a "." followed by a digit and then a letter, and
\* a well-formed name as well; only the latter is returned, stored and listed.
C24_Witness ==
    /\ extraction.called
    /\ \E i \in 1..(Len(extraction.content) - 2) :
          /\ extraction.content[i] = "."
          /\ extraction.content[i + 1] \in Digits
          /\ extraction.content[i + 2] \in Letters
    /\ Len(extraction.classNames) = 1
    /\ lastOp.kind = "resume"
    /\ lastOp.text = extraction.content
    /\ items = extraction.classNames

\* ------------------------------------------------------------------------
\* Properties of reset, of a remove without an entry and of a repeated update
\* (specification Spec)
\* ------------------------------------------------------------------------

\* C25: after reset() the map is empty and items() is the empty list,
\* whatever the map held; and at any time a file has an entry only if an
\* update of it has completed since the last reset.
C25_ResetEmptiesEverything ==
    /\ lastOp.kind = "reset" => cssClassesByFile = <<>> /\ items = <<>>
    /\ \A e \in 1..Len(cssClassesByFile) :
          cssClassesByFile[e].file \in SeqToSet(recency)

\* C25 witness: reset() ran on a map with entries of two files that listed
\* names, and items() is empty now.
C25_Witness ==
    /\ lastOp.kind = "reset"
    /\ Len(prev.cssClassesByFile) >= 2
    /\ itemsOf(prev.cssClassesByFile) # <<>>
    /\ items = <<>>

\* C26: removeCssClassesForFile(f) for a file f without an entry leaves the
\* map, with the order of its entries, and the list of items() as they were,
\* and logs no error.
C26_RemoveWithoutEntryIsNoOp ==
    (lastOp.kind = "remove" /\ ~MapHas(prev.cssClassesByFile, lastOp.file)) =>
        /\ cssClassesByFile = prev.cssClassesByFile
        /\ items = itemsOf(prev.cssClassesByFile)
        /\ errorCount = prev.errorCount

\* C26 witness: a file without an entry was removed while two other files
\* had entries.
C26_Witness ==
    /\ lastOp.kind = "remove"
    /\ ~MapHas(prev.cssClassesByFile, lastOp.file)
    /\ Len(prev.cssClassesByFile) = 2
    /\ Len(cssClassesByFile) = 2

\* The file f is the file updated last and its entry holds the names of text.
NewestEntryIs(m, f, text) ==
    /\ m # <<>>
    /\ m[Len(m)].file = f
    /\ m[Len(m)].classes = NewSet(extractClassNames(text))

\* C27: when an update of f with a text completes and f was already the file
\* updated last, with the names of that same text, the map and items() are
\* what they were after the first update, and f is still the most recent file.
C27_RepeatedUpdateChangesNothing ==
    (lastOp.kind = "resume" /\ NewestEntryIs(prev.cssClassesByFile, lastOp.file, lastOp.text)) =>
        /\ items = itemsOf(prev.cssClassesByFile)
        /\ cssClassesByFile = prev.cssClassesByFile
        /\ cssClassesByFile[Len(cssClassesByFile)].file = lastOp.file

\* C27 witness: the repeated update of the newest of two files, both with
\* names, has completed.
C27_Witness ==
    /\ lastOp.kind = "resume"
    /\ NewestEntryIs(prev.cssClassesByFile, lastOp.file, lastOp.text)
    /\ Len(prev.cssClassesByFile) = 2
    /\ prev.cssClassesByFile[1].classes # <<>>
    /\ prev.cssClassesByFile[2].classes # <<>>
    /\ prev.cssClassesByFile[1].classes # prev.cssClassesByFile[2].classes

\* ------------------------------------------------------------------------
\* Properties of the quote rule with back-ticks (specification ProviderSpec)
\* ------------------------------------------------------------------------

\* Left-to-right scan of s from index i that knows the single and the double
\* quote only: the index of the quote left open at the end of s, or 0.
RECURSIVE StraightQuoteScan(_, _, _)
StraightQuoteScan(s, i, open) ==
    IF i > Len(s) THEN open
    ELSE IF open = 0
    THEN StraightQuoteScan(s, i + 1, IF s[i] = "'" \/ s[i] = "\"" THEN i ELSE 0)
    ELSE StraightQuoteScan(s, i + 1, IF s[i] = s[open] THEN 0 ELSE open)

\* The document with a comma in the place of every back-tick.
WithoutBackticks(doc) ==
    [l \in 1..Len(doc) |-> [k \in 1..Len(doc[l]) |-> IF doc[l][k] = Backtick THEN "," ELSE doc[l][k]]]

\* C28: a back-tick is no quote delimiter. With quote required, a cursor line
\* without an unterminated single or double quote gives no match, however
\* many back-ticks it has; the text that isInContext takes to stand before
\* the open quote ends where the scan that knows no back-tick finds the open
\* quote; and the result is the result for the document with a comma in the
\* place of every back-tick.
C28_BackticksAreOrdinaryText ==
    request.made =>
        LET open == StraightQuoteScan(CursorLine, 1, 0)
        IN /\ (request.opts.quote /\ open = 0) => ~request.matched
           /\ Len(UP_TO_UNMATCHED_QUOTE_REGEX_exec(CursorLine))
                = (IF open = 0 THEN Len(CursorLine) ELSE open - 1)
           /\ request.matched
                = isInContext(WithoutBackticks(document), position, request.opts)

\* C28 witness: the cursor follows two back-ticks and no quote in a call of a
\* listed function; with quote required there is no match, and without the
\* requirement the same position matches.
C28_Witness ==
    /\ request.made
    /\ request.opts.quote
    /\ ~request.matched
    /\ Cardinality({k \in 1..Len(CursorLine) : CursorLine[k] = Backtick}) = 2
    /\ \A k \in 1..Len(CursorLine) : CursorLine[k] \notin {"'", "\""}
    /\ isInContext(document, position, [request.opts EXCEPT !.quote = FALSE])

\* ------------------------------------------------------------------------
\* Properties of a parenthesis without an identifier (specification
\* ProviderSpec)
\* ------------------------------------------------------------------------

\* C29: when the innermost open parenthesis in front of the open quote has no
\* identifier directly in front of it, the result of isInContext is false,
\* whatever the function names are.
C29_BareOpenNeverMatches ==
    NestingScanned =>
        LET opens == UnclosedOpens(BeforeOpenQuote)
        IN (opens # {} /\ CalleeAt(BeforeOpenQuote, Innermost(opens)) = <<>>) =>
             ~request.matched

\* ------------------------------------------------------------------------
\* Termination of isInContext (specification ScanSpec)
\* ------------------------------------------------------------------------

\* C30: a call of isInContext makes at most MAX_LOOKBACK_LINES passes, the
\* first over the cursor line and pass k + 1 over the line k lines above it;
\* and on every line it passes over, each token of the parenthesis pattern has
\* at least one character, so that a line has no more tokens than characters.
C30_ScanIsBounded ==
    request.made =>
        /\ 1 + Len(request.reads) <= MAX_LOOKBACK_LINES
        /\ \A k \in 1..Len(request.reads) : request.reads[k] = position.line - k
        /\ \A l \in LinesScanned :
              LET tokens == PARENS_REGEX_matches(document[l + 1], 1)
              IN /\ \A t \in 1..Len(tokens) : tokens[t] # <<>>
                 /\ Len(tokens) <= Len(document[l + 1])

\* C30 witness: the scan made MAX_LOOKBACK_LINES passes, over lines with
\* parenthesis tokens, stopped with lines left above the oldest line it read,
\* and returned.
C30_Witness ==
    /\ request.made
    /\ ~request.raised
    /\ 1 + Len(request.reads) = MAX_LOOKBACK_LINES
    /\ OldestScanned > 0
    /\ \E l \in LinesScanned : PARENS_REGEX_matches(document[l + 1], 1) # <<>>

\* ------------------------------------------------------------------------
\* Properties of the closes carried over (specification ScanSpec)
\* ------------------------------------------------------------------------

\* The closing parentheses of s that no earlier opening parenthesis matches.
UnmatchedCloses(s) ==
    LET deficits == {Cardinality({k \in 1..j : s[k] = ")"})
                       - Cardinality({k \in 1..j : s[k] = "("}) : j \in 0..Len(s)}
    IN CHOOSE d \in deficits : \A e \in deficits : e <= d

\* The part of line l that a pass scans: the cursor line up to its open
\* quote, another line wholly.
ScannedText(l) == IF l = position.line THEN BeforeOpenQuote ELSE document[l + 1]

\* The closes that the lines below line l leave unmatched.
CarriedInto(l) == IF l = position.line THEN 0 ELSE UnmatchedCloses(TextFrom(l + 1))

\* The stacks after the pass over line l.
StacksAfter(l) ==
    LET scanned == scanParens(PARENS_REGEX_matches(ScannedText(l), 1), <<>>, <<>>)
    IN applyPriorStack([k \in 1..CarriedInto(l) |-> <<")">>],
                       scanned.parensStack, scanned.negativeParensStack)

\* C31: for every line that a scan passes over, the closes carried on to the
\* line above are the closes unmatched inside the line plus the carried-in
\* closes beyond the number of opens the line leaves unresolved; the opens
\* that stay on the stack are the oldest unresolved opens of the line, one
\* less for every carried-in close; and the closes carried on are the closes
\* that the text from this line to the cursor leaves unmatched.
C31_CarriedClosesAreConserved ==
    NestingScanned =>
        \A l \in LinesScanned :
            LET line == ScannedText(l)
                opens == UnclosedOpens(line)
                carriedIn == CarriedInto(l)
                excess == IF carriedIn > Cardinality(opens)
                          THEN carriedIn - Cardinality(opens) ELSE 0
                stacks == StacksAfter(l)
            IN /\ Len(stacks.negativeParensStack) = UnmatchedCloses(line) + excess
               /\ Len(stacks.negativeParensStack) = UnmatchedCloses(TextFrom(l))
               /\ Len(stacks.parensStack) + carriedIn = Cardinality(opens) + excess
               /\ \A k \in opens :
                     LET rank == Cardinality({j \in opens : j <= k})
                     IN rank <= Len(stacks.parensStack) =>
                          stacks.parensStack[rank] = CalleeAt(line, k) \o <<"(">>

\* C31 witness: the scan passed over a line with a close of its own that it
\* reached with a close carried in; two closes are carried on.
C31_Witness ==
    /\ NestingScanned
    /\ \E l \in LinesScanned :
          /\ l < position.line
          /\ CarriedInto(l) = 1
          /\ UnmatchedCloses(ScannedText(l)) = 1
          /\ Len(StacksAfter(l).negativeParensStack) = 2

\* ------------------------------------------------------------------------
\* Properties of a provider that does not require the quote (specification
\* ProviderSpec)
\* ------------------------------------------------------------------------

\* The text that the attribute check looks at: the cursor line up to its open
\* single or double quote, or up to the cursor when no quote is open.
BeforeQuoteOrCursor ==
    LET open == StraightQuoteScan(CursorLine, 1, 0)
    IN IF open = 0 THEN CursorLine ELSE SubSeq(CursorLine, 1, open - 1)

\* C33: without the quote requirement, a cursor line in which all quotes pair
\* off and that ends with `<identifier>=` matches exactly when the identifier
\* is a listed attribute; and without function names isInContext only returns
\* true when the text before the open quote, or before the cursor when no
\* quote is open, ends with a listed attribute and "=".
C33_UnquotedAttributeMatches ==
    request.made =>
        /\ (/\ ~request.opts.quote
            /\ request.opts.attrs # <<>>
            /\ StraightQuoteScan(CursorLine, 1, 0) = 0
            /\ EndsWithAttribute(CursorLine)) =>
              (request.matched <=>
                   TrailingAttribute(CursorLine) \in SeqToSet(request.opts.attrs))
        /\ (request.opts.fns = <<>> /\ request.matched) =>
              /\ EndsWithAttribute(BeforeQuoteOrCursor)
              /\ TrailingAttribute(BeforeQuoteOrCursor) \in SeqToSet(request.opts.attrs)

\* C33 witness: the provider without the quote requirement and without
\* function names matches behind a listed attribute and "=", after a quoted
\* span that is closed.
C33_Witness ==
    /\ request.made
    /\ ~request.opts.quote
    /\ request.opts.fns = <<>>
    /\ request.matched
    /\ StraightQuoteScan(CursorLine, 1, 0) = 0
    /\ \E k \in 1..Len(CursorLine) : CursorLine[k] = "\""
    /\ CursorLine[Len(CursorLine)] = "="

\* ------------------------------------------------------------------------
\* Properties of a remove during an update (specification Spec)
\* ------------------------------------------------------------------------

\* C34: when removeCssClassesForFile(f) runs while an update of f is suspended
\* at its read, and that read is fulfilled in the next step, f has no entry
\* afterwards: the update was started before the remove.
C34_StaleUpdateDoesNotReinsert ==
    [][(/\ lastOp.kind = "remove"
        /\ lastOp'.kind = "resume"
        /\ lastOp'.file = lastOp.file)
         => ~MapHas(cssClassesByFile', lastOp.file)]_vars

\* ------------------------------------------------------------------------
\* Properties of items() as an operation (specification ProviderSpec)
\* ------------------------------------------------------------------------

\* C32: a call of items() leaves the map as it was, entries and order, and
\* the list it returned is the list that a call in the state it leaves
\* returns.
C32_ItemsIsReadOnly ==
    lastOp.kind = "items" =>
        /\ cssClassesByFile = prev.cssClassesByFile
        /\ errorCount = prev.errorCount
        /\ lastOp.text = itemsOf(cssClassesByFile)

\* C32 witness: items() was called on a map with entries of two files with
\* different names and returned names.
C32_Witness ==
    /\ lastOp.kind = "items"
    /\ Len(prev.cssClassesByFile) = 2
    /\ prev.cssClassesByFile[1].classes # prev.cssClassesByFile[2].classes
    /\ Len(lastOp.text) >= 2

\* ------------------------------------------------------------------------
\* The scan position of the shared pattern (specification ScanSpec)
\* ------------------------------------------------------------------------

\* C36: after every call of isInContext the scan position of the shared
\* parenthesis pattern is 0, so that the next pass, of this or of a later
\* call, starts at the beginning of its line; and the call repeated in the
\* state it leaves returns the same result.
C36_VerdictIndependentOfEarlierCalls ==
    request.made =>
        /\ PARENS_REGEX_lastIndex = 0
        /\ request.matched = isInContext(document, position, request.opts)

\* C36 witness: a call that made several passes, one of them over a line with
\* parenthesis tokens that did not end the scan, has returned true.
C36_Witness ==
    /\ request.made
    /\ request.matched
    /\ Len(request.reads) >= 2
    /\ PARENS_REGEX_lastIndex = 0
    /\ \E l \in LinesScanned :
          /\ l > OldestScanned
          /\ PARENS_REGEX_matches(ScannedText(l), 1) # <<>>

\* ------------------------------------------------------------------------
\* Properties of rescans and configuration changes (specification
\* ActivationSpec)
\* ------------------------------------------------------------------------

\* The scan that was started last.
LatestScan == activation.scans[Len(activation.scans)]

\* C35: when the scan that was started last has finished, every entry of the
\* map belongs to a file that matches the patterns of that scan, which are
\* the files it found and the files its watchers report.
C35_RescanLeavesOnlyItsFiles ==
    LatestScan.stage = "done" =>
        \A e \in 1..Len(cssClassesByFile) :
            cssClassesByFile[e].file \in SeqToSet(findAllFiles(LatestScan.patterns))

\* The step is the onDidChangeConfiguration handler for an event that affects
\* `what`.
ConfigurationChanged(what) ==
    /\ lastOp'.kind = "onDidChangeConfiguration"
    /\ activation'.changes = activation.changes + 1
    /\ activation'.event = what

\* The step leaves the map, the watchers, the scans and the pending update of
\* the watchers as they are.
RegistryAndWatchersKept ==
    /\ cssClassesByFile' = cssClassesByFile
    /\ updates' = updates
    /\ activation'.currentWatchers = activation.currentWatchers
    /\ activation'.scans = activation.scans
    /\ activation'.patterns = activation.patterns

\* C37: a configuration change that affects cssClassAutocomplete but not
\* styleFilePatterns leaves the map, its order, the watchers and the scans
\* unchanged and replaces the two providers by two new ones; a change that
\* does not affect cssClassAutocomplete leaves the providers unchanged too.
C37_OtherSettingsKeepRegistry ==
    [][/\ ConfigurationChanged("attributes") =>
            /\ RegistryAndWatchersKept
            /\ Len(activation'.currentProviders) = 2
            /\ SeqToSet(activation'.currentProviders)
                 \cap SeqToSet(activation.currentProviders) = {}
       /\ ConfigurationChanged("unrelated") =>
            /\ RegistryAndWatchersKept
            /\ activation'.currentProviders = activation.currentProviders]_vars

\* C37 witness: a change of another setting of cssClassAutocomplete was
\* handled while the map had an entry and a scan was still running; the map is
\* the one before the event.
C37_Witness ==
    /\ lastOp.kind = "onDidChangeConfiguration"
    /\ activation.event = "attributes"
    /\ cssClassesByFile # <<>>
    /\ cssClassesByFile = prev.cssClassesByFile
    /\ activation.currentWatchers # <<>>
    /\ \E k \in 1..Len(activation.scans) : activation.scans[k].stage = "reading"
====
